---- MODULE Spec2Model ----
(***************************************************************************)
(* A model of hilbert's sharded cooccurrence streaming pipeline:           *)
(*   - the partition scheme (h.shards.Shards, strided selectors),          *)
(*   - the preload generator BigramLoaderBase._preload_iter,               *)
(*   - the multi-process loader (workers, bounded queue, consumer),        *)
(*   - the batch iterator ModelBatchLoader.                                *)
(*   - the cooccurrence data of a partition and the statistical transforms *)
(*     (_load of each loader class, corpus_stats).                         *)
(* The specifications share the variables: SpecPipeline (multi-process     *)
(* run), SpecCrash (the same with worker processes that may die),          *)
(* SpecBatch (ModelBatchLoader), SpecPartition (the pure partition         *)
(* functions applied to drawn inputs), SpecData (partitions of drawn       *)
(* matrices handed to the transforms), SpecEpochs (repeated traversals of  *)
(* a constructed batch loader, _load run on the stored tensors) and        *)
(* SpecKeep (corpus_stats.w2v_prob_keep applied to drawn unigram data).    *)
(***************************************************************************)
EXTENDS Integers, Sequences, FiniteSets, TLC

VARIABLES
    args,               \* the constructor arguments of the loader
    ldr,                \* the loader object's fields after __init__ ("self")
    stream,             \* per worker: the items its generator yields, in order
    wpos,               \* per worker: number of items of its stream already pushed
    wdone,              \* per worker: completion signal pushed
    queue,              \* the shared bounded queue (result_queue)
    delivered,          \* per worker: its items the consumer has popped, in arrival order
    num_complete,       \* completion signals the consumer has observed
    cstate,             \* consumer: "running" | "exhausted" | "failed"
    crashed,            \* the worker processes that died before signalling
    V,                  \* side of the V x V cooccurrence matrix
    pres,               \* last result of applying the partition functions
    phase,              \* batch iterator: "idle" | "preloading" | "ready"
    gen,                \* preloader generator: number of items yielded so far
    preloaded_batches,  \* ModelBatchLoader.preloaded_batches
    crt_batch_id,       \* ModelBatchLoader.crt_batch_id
    last,               \* the last call on the batch loader and its outcome
    yielded,            \* batches returned since the last __iter__
    advances,           \* __next__ calls since the last __iter__
    began_from,         \* the cursor at the moment of the last __iter__
    hyper,              \* model hyperparameters of the batch loader
    loader_class,       \* the loader class constructed: module and model family
    corpus,             \* the stored cooccurrence data: Nxx, Nx, Nxt, N, unigram
    part,               \* the preloaded partition handed to a transform
    out,                \* the outcome of the last _load call
    device,             \* the device _load moves the tensors to (self.device)
    earlier             \* batches returned in the traversal before the last __iter__

vars == <<args, ldr, stream, wpos, wdone, queue, delivered, num_complete, cstate,
          crashed, V, pres, phase, gen, preloaded_batches, crt_batch_id, last,
          yielded, advances, began_from, hyper, loader_class,
          corpus, part, out, device, earlier>>

pipeVars == <<stream, wpos, wdone, queue, delivered, num_complete, cstate,
              crashed>>
partVars == <<V, pres>>
batchVars == <<phase, gen, preloaded_batches, crt_batch_id, last,
               yielded, advances, began_from, hyper>>
dataVars == <<loader_class, corpus, part, out, device, earlier>>

(***************************************************************************)
(* Bounds of the model.                                                    *)
(***************************************************************************)
MaxSectorFactor == 3
MaxShardFactor == 2
MaxLoaders == 2
MaxQueue == 2
\* Largest number of partitions (sectors times shards) of one traversal.
MaxItems == 16
MaxV == 4
MaxExtra == 2

\* The encoding of Python's None for the integer cursor crt_batch_id.
NoneId == -2

(***************************************************************************)
(* Partition scheme: a PartitionId is a pair of strided selectors          *)
(* (slice(start, None, step)) for rows and columns.                        *)
(***************************************************************************)
Slice(start, step) == [start |-> start, step |-> step]

\* h.shards.Shards(F): the F*F PartitionIds in row-major order, 0-indexed.
Shards(F) ==
    [c \in 0..(F * F - 1) |-> <<Slice(c \div F, F), Slice(c % F, F)>>]

\* Shard.__mul__: `shard * sector` is the shard's selector relative to the
\* sector's selector, as one selector on the full matrix.
MulSlice(rel, base) ==
    Slice(base.start + rel.start * base.step, base.step * rel.step)

Mul(shard, sector) ==
    <<MulSlice(shard[1], sector[1]), MulSlice(shard[2], sector[2])>>

\* Indexing a sequence of absolute indices with a strided selector: the
\* elements at positions start, start+step, ... (positions counted from 0).
SliceIdx(sel, idxs) ==
    LET n == Len(idxs)
        m == IF sel.start >= n THEN 0
             ELSE ((n - 1 - sel.start) \div sel.step) + 1
    IN  [j \in 1..m |-> idxs[sel.start + (j - 1) * sel.step + 1]]

Range(s) == {s[j] : j \in DOMAIN s}
Axis(n) == [j \in 1..n |-> j - 1]

\* The cells of an n x n matrix that a PartitionId selects.
Cells(pid, n) ==
    Range(SliceIdx(pid[1], Axis(n))) \X Range(SliceIdx(pid[2], Axis(n)))

\* A sector's Nxx is the full matrix indexed with the sector, Nxx[sector]:
\* here the absolute row and column indices it holds, in order.
LoadSector(sector, n) ==
    <<SliceIdx(sector[1], Axis(n)), SliceIdx(sector[2], Axis(n))>>

\* load_relative_shard: the sector's Nxx indexed with the shard.
LoadRelativeShard(sec, shard) ==
    <<SliceIdx(shard[1], sec[1]), SliceIdx(shard[2], sec[2])>>

(***************************************************************************)
(* BigramLoaderBase                                                        *)
(***************************************************************************)
NumPartitions(a) ==
    a.sector_factor * a.sector_factor * a.shard_factor * a.shard_factor

ArgSpace ==
    {a \in [sector_factor : 1..MaxSectorFactor, shard_factor : 1..MaxShardFactor,
            num_loaders : 1..MaxLoaders, queue_size : 1..MaxQueue] :
        NumPartitions(a) <= MaxItems}

\* Mutant: the two sizes handed to the base class are swapped.
LoaderInit_SwappedSizes(a) ==
    [sector_factor |-> a.sector_factor, shard_factor |-> a.shard_factor,
     num_loaders |-> a.queue_size, queue_size |-> a.num_loaders]

\* Mutant: one loader per sector (the constraint the constructor used to
\* enforce), whatever num_loaders was asked for.
LoaderInit_LoaderPerSector(a) ==
    [sector_factor |-> a.sector_factor, shard_factor |-> a.shard_factor,
     num_loaders |-> a.sector_factor * a.sector_factor, queue_size |-> a.queue_size]

\* __init__: stores the factors and hands num_loaders and queue_size to the
\* multi-loader base class.
LoaderInit(a) ==
    [sector_factor |-> a.sector_factor, shard_factor |-> a.shard_factor,
     num_loaders |-> a.num_loaders, queue_size |-> a.queue_size]

\* Mutant: the sector loop built from the shard factor.
SectorIds_ShardFactor(l) == Shards(l.shard_factor)

\* The sector sequence and the shard sequence that _preload_iter iterates.
SectorIds(l) == Shards(l.sector_factor)
ShardIds(l) == Shards(l.shard_factor)

\* Mutant: floor division in place of the remainder.
Assigned_Div(l, i, loader_id) == i \div l.num_loaders = loader_id

\* `if i % self.num_loaders != loader_id: continue`
Assigned(l, i, loader_id) == i % l.num_loaders = loader_id

\* Mutant: the operands of the product exchanged.
CompositeId_Swapped(l, i, k) == Mul(SectorIds(l)[i], ShardIds(l)[k])

\* Mutant: the sector's id yielded for each of its shards.
CompositeId_SectorOnly(l, i, k) == SectorIds(l)[i]

\* The id yielded with a partition: `shard_id * sector_id`.
CompositeId(l, i, k) == Mul(ShardIds(l)[k], SectorIds(l)[i])

\* Mutant: the inner loop running over the shards backwards.
SectorItems_Reversed(l, i) ==
    [j \in 1..Cardinality(DOMAIN ShardIds(l)) |->
        <<i, Cardinality(DOMAIN ShardIds(l)) - j>>]

\* The inner loop: all shards of sector i, in Shards order.
SectorItems(l, i) ==
    [j \in 1..Cardinality(DOMAIN ShardIds(l)) |-> <<i, j - 1>>]

\* _preload_iter(loader_id): the sequence of (sector index, shard index)
\* pairs the generator yields, in order.
RECURSIVE PreloadFrom(_, _, _)
PreloadFrom(l, loader_id, i) ==
    IF i \notin DOMAIN SectorIds(l) THEN <<>>
    ELSE IF ~Assigned(l, i, loader_id) THEN PreloadFrom(l, loader_id, i + 1)
    ELSE SectorItems(l, i) \o PreloadFrom(l, loader_id, i + 1)

PreloadIter(l, loader_id) == PreloadFrom(l, loader_id, 0)

(***************************************************************************)
(* Multi-process loader: workers, bounded queue, consumer.                 *)
(***************************************************************************)
Workers(l) == 0..(l.num_loaders - 1)

Item(w, it) == [kind |-> "item", worker |-> w, sector |-> it[1], shard |-> it[2]]
Signal(w) == [kind |-> "done", worker |-> w, sector |-> -1, shard |-> -1]

\* JoinableQueue(maxsize): put blocks while the queue holds maxsize entries
\* (a maxsize <= 0 makes the queue unbounded).
QueueFull(l, q) == l.queue_size > 0 /\ Len(q) >= l.queue_size

InitCommon ==
    /\ args \in ArgSpace
    /\ ldr = LoaderInit(args)

InitPipeVars ==
    /\ stream = [w \in Workers(ldr) |-> PreloadIter(ldr, w)]
    /\ wpos = [w \in Workers(ldr) |-> 0]
    /\ wdone = [w \in Workers(ldr) |-> FALSE]
    /\ queue = <<>>
    /\ delivered = [w \in Workers(ldr) |-> <<>>]
    /\ num_complete = 0
    /\ cstate = "running"
    /\ crashed = {}

InitPartVars ==
    /\ V = 0
    /\ pres = [op |-> "none"]

InitIterVars ==
    /\ phase = "idle"
    /\ gen = 0
    /\ preloaded_batches = <<>>
    /\ crt_batch_id = NoneId
    /\ last = [op |-> "init", kind |-> "none"]
    /\ yielded = <<>>
    /\ advances = 0
    /\ began_from = NoneId

\* SGNSLoader / Word2vecLoader: the default k.
DefaultK == 15
\* MaxLikelihoodLoader, MaxPosteriorLoader, KLLoader: the default temperature.
DefaultTemperature == 1

\* The attributes a transform reads from its loader: X_max and alpha
\* (GloVe), k (SGNS), temperature (the likelihood-based loaders).
Hyper(X_max, alpha) ==
    [X_max |-> X_max, alpha |-> alpha,
     k |-> DefaultK, temperature |-> DefaultTemperature]

InitBatchVars ==
    /\ InitIterVars
    /\ hyper = Hyper(1, 1)

\* The device the preloader stages the tensors on (device='cpu' in
\* _preload_iter); a loader constructed with device=None leaves them there.
StagingDevice == "cpu"

\* No cooccurrence data is loaded and no transform has been applied.
InitDataVars ==
    /\ loader_class = [module |-> "none", family |-> "none"]
    /\ corpus = [loaded |-> FALSE]
    /\ part = [loaded |-> FALSE]
    /\ out = [kind |-> "none"]
    /\ device = StagingDevice
    /\ earlier = <<>>

\* Mutant: a worker that had nothing to push sends no completion signal.
MustSignal_OnlyAfterItems(l, w) == Len(PreloadIter(l, w)) > 0

\* The worker loop pushes every item its generator yields and then one
\* completion signal, whatever the number of items.
MustSignal(l, w) == TRUE

\* A worker process runs: it has not died, and the consumer has not shut the
\* pipeline down.
Alive(w) == w \notin crashed /\ cstate # "failed"

\* A worker pushes the next item of its stream (blocking while the queue is
\* full).
WorkerPut(w) ==
    /\ Alive(w)
    /\ ~wdone[w]
    /\ wpos[w] < Len(stream[w])
    /\ ~QueueFull(ldr, queue)
    /\ queue' = Append(queue, Item(w, stream[w][wpos[w] + 1]))
    /\ wpos' = [wpos EXCEPT ![w] = @ + 1]
    /\ UNCHANGED <<args, ldr, stream, crashed, wdone, delivered, num_complete, cstate>>
    /\ UNCHANGED <<partVars, batchVars, dataVars>>

\* A worker whose generator is exhausted pushes its completion signal.
WorkerSignal(w) ==
    /\ Alive(w)
    /\ ~wdone[w]
    /\ wpos[w] = Len(stream[w])
    /\ MustSignal(ldr, w)
    /\ ~QueueFull(ldr, queue)
    /\ queue' = Append(queue, Signal(w))
    /\ wdone' = [wdone EXCEPT ![w] = TRUE]
    /\ UNCHANGED <<args, ldr, stream, crashed, wpos, delivered, num_complete, cstate>>
    /\ UNCHANGED <<partVars, batchVars, dataVars>>

\* The consumer's loop condition: more completion signals are awaited.
Awaiting(l, n) == n < l.num_loaders

\* The consumer pops one entry (blocking while the queue is empty): an item
\* is delivered, a completion signal is counted.
ConsumerPop ==
    /\ cstate = "running"
    /\ Awaiting(ldr, num_complete)
    /\ queue # <<>>
    /\ queue' = Tail(queue)
    /\ IF Head(queue).kind = "done"
       THEN /\ num_complete' = num_complete + 1
            /\ UNCHANGED delivered
       ELSE /\ delivered' = [delivered EXCEPT ![Head(queue).worker] =
                                 Append(@, <<Head(queue).sector, Head(queue).shard>>)]
            /\ UNCHANGED num_complete
    /\ UNCHANGED <<args, ldr, stream, crashed, wpos, wdone, cstate>>
    /\ UNCHANGED <<partVars, batchVars, dataVars>>

\* With num_loaders completion signals counted the consumer declares the
\* pipeline exhausted.
ConsumerExhaust ==
    /\ cstate = "running"
    /\ ~Awaiting(ldr, num_complete)
    /\ cstate' = "exhausted"
    /\ UNCHANGED <<args, ldr, stream, crashed, wpos, wdone, queue, delivered, num_complete>>
    /\ UNCHANGED <<partVars, batchVars, dataVars>>

InitPipeline ==
    InitCommon /\ InitPipeVars /\ InitPartVars /\ InitBatchVars /\ InitDataVars

WorkerStep(w) == w \in Workers(ldr) /\ (WorkerPut(w) \/ WorkerSignal(w))

NextPipeline ==
    \/ \E w \in Workers(ldr) : WorkerPut(w)
    \/ \E w \in Workers(ldr) : WorkerSignal(w)
    \/ ConsumerPop
    \/ ConsumerExhaust

SpecPipeline == InitPipeline /\ [][NextPipeline]_vars

\* Every worker process and the consumer keep being scheduled.
FairPipeline ==
    /\ SpecPipeline
    /\ \A w \in 0..(MaxLoaders - 1) : WF_vars(WorkerStep(w))
    /\ WF_vars(ConsumerPop)
    /\ WF_vars(ConsumerExhaust)

(***************************************************************************)
(* The multi-process pipeline with worker processes that may die.          *)
(***************************************************************************)
\* Largest number of partitions of a traversal in the runs with crashes.
MaxCrashItems == 4

\* Mutant: the consumer notices dead workers only once all of them died.
CrashObserved_AllWorkers(l, c) == c = Workers(l)

\* The consumer learns that a worker process died.
CrashObserved(l, c) == c # {}

\* A worker process dies before it has pushed its completion signal.
Crash(w) ==
    /\ Alive(w)
    /\ ~wdone[w]
    /\ crashed' = crashed \cup {w}
    /\ UNCHANGED <<args, ldr, stream, wpos, wdone, queue, delivered, num_complete, cstate>>
    /\ UNCHANGED <<partVars, batchVars, dataVars>>

\* The consumer turns a worker's death into the fatal pipeline error: the
\* queued entries and the results so far are discarded (no partial result)
\* and the remaining workers are terminated.
ConsumerFail ==
    /\ cstate = "running"
    /\ CrashObserved(ldr, crashed)
    /\ cstate' = "failed"
    /\ queue' = <<>>
    /\ delivered' = [w \in Workers(ldr) |-> <<>>]
    /\ UNCHANGED <<args, ldr, stream, crashed, wpos, wdone, num_complete>>
    /\ UNCHANGED <<partVars, batchVars, dataVars>>

InitCrash ==
    /\ InitPipeline
    /\ NumPartitions(args) <= MaxCrashItems

NextCrash ==
    \/ \E w \in Workers(ldr) : WorkerPut(w)
    \/ \E w \in Workers(ldr) : WorkerSignal(w)
    \/ \E w \in Workers(ldr) : Crash(w)
    \/ ConsumerPop
    \/ ConsumerExhaust
    \/ ConsumerFail

SpecCrash == InitCrash /\ [][NextCrash]_vars

\* Every live worker and the consumer keep being scheduled; a crash may or
\* may not happen.
FairCrash ==
    /\ SpecCrash
    /\ \A w \in 0..(MaxLoaders - 1) : WF_vars(WorkerStep(w))
    /\ WF_vars(ConsumerPop)
    /\ WF_vars(ConsumerExhaust)
    /\ WF_vars(ConsumerFail)

(***************************************************************************)
(* Properties of the multi-process pipeline.                               *)
(***************************************************************************)
\* The single-process traversal: the same generator with one loader.
SingleProcess(l) == PreloadIter([l EXCEPT !.num_loaders = 1], 0)

Count(seq, x) == Cardinality({j \in DOMAIN seq : seq[j] = x})

\* All sequences of a family (a function from workers to sequences), as one
\* set of <<worker, position>> pairs.
Positions(fam) == UNION {{<<w, j>> : j \in DOMAIN fam[w]} : w \in DOMAIN fam}

\* How often x occurs in a family of sequences.
FamCount(fam, x) == Cardinality({p \in Positions(fam) : fam[p[1]][p[2]] = x})

\* The part of each worker's stream already pushed.
Pushed == [w \in Workers(ldr) |-> SubSeq(stream[w], 1, wpos[w])]

\* The items of worker w that sit in the queue, in queue order.
QueuedOf(w) ==
    LET s == SelectSeq(queue, LAMBDA e : e.kind = "item" /\ e.worker = w)
    IN  [j \in 1..Len(s) |-> <<s[j].sector, s[j].shard>>]

SignalQueued(w) == \E j \in DOMAIN queue : queue[j] = Signal(w)

\* C1: every sector index i belongs to exactly the worker i mod num_loaders,
\* no (sector, shard) partition is ever pushed more often than the
\* single-process traversal yields it, and at exhaustion the partitions the
\* consumer received from all workers are, as a multiset, those of the
\* single-process traversal.
C1_Coverage ==
    LET single == SingleProcess(ldr)
        pushed == Pushed
        universe == Range(single) \cup UNION {Range(pushed[w]) : w \in DOMAIN pushed}
    IN  /\ \A i \in 0..(args.sector_factor * args.sector_factor - 1) :
              {w \in Workers(ldr) : Assigned(ldr, i, w)} = {i % args.num_loaders}
        /\ \A x \in universe : FamCount(pushed, x) <= Count(single, x)
        /\ cstate = "exhausted" =>
              \A x \in universe : FamCount(delivered, x) = Count(single, x)

\* C1 witness: a finished run with 2 loaders over 9 sectors (2 does not
\* divide 9): worker 0 delivered sectors 0, 2, 4, 6, 8 and worker 1 the rest.
C1_Witness ==
    /\ cstate = "exhausted"
    /\ args.num_loaders = 2 /\ args.sector_factor = 3
    /\ Len(delivered[0]) = 5 /\ Len(delivered[1]) = 4

\* C2: the consumer declares exhaustion only with exactly num_loaders
\* completion signals observed, one per worker, each pushed after all items
\* of that worker, and with no pushed item left undelivered.
C2_Termination ==
    /\ cstate = "exhausted" =>
          /\ num_complete = args.num_loaders
          /\ \A w \in 0..(args.num_loaders - 1) :
                /\ wdone[w] /\ ~SignalQueued(w)
                /\ wpos[w] = Len(stream[w])
                /\ delivered[w] = stream[w]
          /\ queue = <<>>
    /\ \A w \in Workers(ldr) : wdone[w] => wpos[w] = Len(stream[w])
    /\ num_complete = Cardinality({w \in Workers(ldr) : wdone[w] /\ ~SignalQueued(w)})

\* C2 witness: exhaustion declared after both workers' signals, worker 1
\* having had no sector at all and worker 0 four shards.
C2_Witness ==
    /\ cstate = "exhausted" /\ num_complete = 2
    /\ args.sector_factor = 1 /\ args.shard_factor = 2
    /\ Len(delivered[0]) = 4 /\ delivered[1] = <<>>

\* C3: the queue never holds more than queue_size entries, and every item a
\* worker has pushed is either delivered or still queued, in push order
\* (nothing dropped, overwritten or duplicated).
C3_Backpressure ==
    /\ Len(queue) <= args.queue_size
    /\ \A w \in Workers(ldr) :
          SubSeq(stream[w], 1, wpos[w]) = delivered[w] \o QueuedOf(w)

\* C3 witness: queue_size = 1, the consumer has popped nothing, the queue
\* holds a worker's first item and that worker's second item waits.
C3_Witness ==
    /\ args.queue_size = 1 /\ Len(queue) = 1
    /\ \A w \in Workers(ldr) : delivered[w] = <<>>
    /\ \E w \in Workers(ldr) :
          /\ wpos[w] = 1 /\ Len(stream[w]) > 1
          /\ ~ENABLED WorkerPut(w)

\* C4: under fair scheduling every run reaches the exhausted state.
C4_Terminates == <>(cstate = "exhausted")

\* C4 witness: exhaustion reached with a queue of capacity 1 in a run where
\* worker 1 had no sector and worker 0 pushed four shards.
C4_Witness ==
    /\ cstate = "exhausted" /\ args.queue_size = 1
    /\ args.num_loaders = 2 /\ args.sector_factor = 1
    /\ Len(delivered[0]) = 4 /\ wdone[1] /\ wpos[1] = 0

(***************************************************************************)
(* The partition functions applied to drawn factors and matrix sizes.      *)
(***************************************************************************)
InitPartition ==
    /\ InitCommon
    /\ args.num_loaders = 1 /\ args.queue_size = 1
    /\ InitPipeVars
    /\ V \in 0..MaxV
    /\ pres = [op |-> "none"]
    /\ InitBatchVars
    /\ InitDataVars

\* Select sector i of the sector grid on the V x V matrix.
SelectSector(i) ==
    /\ pres' = [op |-> "sector", i |-> i, k |-> -1,
                cells |-> Cells(SectorIds(ldr)[i], V),
                two_step |-> {}]
    /\ UNCHANGED <<args, ldr, V>>
    /\ UNCHANGED <<pipeVars, batchVars, dataVars>>

\* Select shard k of sector i in both ways: with the composite id on the
\* full matrix, and by loading the sector and then its relative shard.
SelectComposite(i, k) ==
    /\ LET two == LoadRelativeShard(LoadSector(SectorIds(ldr)[i], V), ShardIds(ldr)[k])
       IN  pres' = [op |-> "composite", i |-> i, k |-> k,
                    cells |-> Cells(CompositeId(ldr, i, k), V),
                    two_step |-> Range(two[1]) \X Range(two[2])]
    /\ UNCHANGED <<args, ldr, V>>
    /\ UNCHANGED <<pipeVars, batchVars, dataVars>>

NextPartition ==
    \/ \E i \in DOMAIN SectorIds(ldr) : SelectSector(i)
    \/ \E i \in DOMAIN SectorIds(ldr), k \in DOMAIN ShardIds(ldr) : SelectComposite(i, k)

SpecPartition == InitPartition /\ [][NextPartition]_vars

Grid(n) == (0..(n - 1)) \X (0..(n - 1))

\* ids are F*F distinct PartitionIds whose cells tile the n x n matrix.
Tiles(ids, F, n) ==
    /\ Cardinality(DOMAIN ids) = F * F
    /\ Cardinality(Range(ids)) = F * F
    /\ \A c \in DOMAIN ids : Cells(ids[c], n) \subseteq Grid(n)
    /\ \A cell \in Grid(n) :
          Cardinality({c \in DOMAIN ids : cell \in Cells(ids[c], n)}) = 1

\* C5: for the sector factor and for the shard factor F the scheme yields
\* exactly F*F PartitionIds whose cells are pairwise disjoint and cover the
\* whole V x V matrix; a selected sector overlaps no other sector; for F = 1
\* the only PartitionId is the identity, selecting the whole matrix.
C5_PartitionCoverage ==
    /\ Tiles(SectorIds(ldr), args.sector_factor, V)
    /\ Tiles(ShardIds(ldr), args.shard_factor, V)
    /\ pres.op = "sector" =>
          \A c \in DOMAIN SectorIds(ldr) \ {pres.i} :
              Cells(SectorIds(ldr)[c], V) \cap pres.cells = {}
    /\ args.sector_factor = 1 =>
          /\ Range(SectorIds(ldr)) = {<<Slice(0, 1), Slice(0, 1)>>}
          /\ pres.op = "sector" => pres.cells = Grid(V)

\* C5 witness: sector 4 (the middle one) of the 3 x 3 grid selected on a
\* 4 x 4 matrix: the single cell (1, 1).
C5_Witness ==
    /\ pres.op = "sector" /\ pres.i = 4
    /\ args.sector_factor = 3 /\ V = 4
    /\ pres.cells = {<<1, 1>>}

\* The cell of the direct partition with factor Fs*Fd that shard k of sector
\* i is: per axis, offset (sector offset) + Fs * (shard offset).
DirectIndex(Fs, Fd, i, k) ==
    ((i \div Fs) + Fs * (k \div Fd)) * (Fs * Fd) + ((i % Fs) + Fs * (k % Fd))

DirectCells(c) == Cells(Shards(args.sector_factor * args.shard_factor)[c], V)

\* C6 as stated: the composite id selects cell i*Fd+k of the direct
\* partition with factor Fs*Fd, and the two-step path selects the same.
C6_Original ==
    pres.op = "composite" =>
        /\ pres.cells = DirectCells(pres.i * args.shard_factor + pres.k)
        /\ pres.cells = pres.two_step

\* C6 (amended): the composite id selects the cell of the direct partition
\* with factor Fs*Fd whose row offset is the sector's row offset plus Fs
\* times the shard's row offset, and likewise for columns; loading the
\* sector and then its relative shard selects the same cells.
C6_Composition ==
    pres.op = "composite" =>
        /\ pres.cells = DirectCells(
               DirectIndex(args.sector_factor, args.shard_factor, pres.i, pres.k))
        /\ pres.cells = pres.two_step

\* C6 witness: sector 1 and shard 2 of a 2 x 2 / 2 x 2 scheme on a 4 x 4
\* matrix select the single cell (2, 1).
C6_Witness ==
    /\ pres.op = "composite" /\ pres.i = 1 /\ pres.k = 2
    /\ args.sector_factor = 2 /\ args.shard_factor = 2 /\ V = 4
    /\ pres.cells = {<<2, 1>>} /\ pres.two_step = {<<2, 1>>}

(***************************************************************************)
(* ModelBatchLoader: preload all partitions at construction, then iterate. *)
(***************************************************************************)
\* The loader object's iteration fields.
Obj == [preloaded_batches |-> preloaded_batches, crt_batch_id |-> crt_batch_id]

\* preloader.preload_iter(): the single-process traversal of all sectors
\* and, within each, all shards.
PreloaderStream(l) == SingleProcess(l)

\* Mutant: the new partition is put in front of the list.
AppendBatch_Prepend(batches, d) == <<d>> \o batches

\* Mutant: the list is replaced by the new partition.
AppendBatch_KeepLast(batches, d) == <<d>>

\* `self.preloaded_batches.append(preload_data)`
AppendBatch(batches, d) == Append(batches, d)

\* Mutant: the traversal starts with the cursor on the first partition.
BatchIter_OnFirst(o) == [o EXCEPT !.crt_batch_id = 0]

\* __iter__: `self.crt_batch_id = -1`
BatchIter(o) == [o EXCEPT !.crt_batch_id = -1]

\* __next__: `self.crt_batch_id += 1`
BatchAdvance(o) == [o EXCEPT !.crt_batch_id = @ + 1]

\* Mutant: the bound compared with > in place of >=.
BatchExhausted_Late(o) == o.crt_batch_id > Len(o.preloaded_batches)

\* __next__: `if self.crt_batch_id >= len(self.preloaded_batches)`
BatchExhausted(o) == o.crt_batch_id >= Len(o.preloaded_batches)

\* __len__
BatchLen(o) == Len(o.preloaded_batches)

\* A Python list index: in range from -len to len-1, negative ones counted
\* from the end.
IndexInRange(o) ==
    /\ o.crt_batch_id < Len(o.preloaded_batches)
    /\ o.crt_batch_id >= -Len(o.preloaded_batches)

\* __next__: `self.preloaded_batches[self.crt_batch_id]`
BatchCurrent(o) ==
    IF o.crt_batch_id >= 0
    THEN o.preloaded_batches[o.crt_batch_id + 1]
    ELSE o.preloaded_batches[Len(o.preloaded_batches) + o.crt_batch_id + 1]

\* The sector whose Nxx the generator's frame references (bigram_sector and
\* the shard cut from it) at its n-th yield; nothing before the first.
FrameSectors(l, n) == IF n = 0 THEN {} ELSE {PreloaderStream(l)[n][1]}

\* The sectors whose Nxx cells the stored partitions hold.
HeldSectors(batches) == {batches[j][1] : j \in DOMAIN batches}

\* The values the hyperparameter X_max takes in the model.
XmaxValues == {1, 2}

InitBatch ==
    /\ InitCommon
    /\ args.num_loaders = 1 /\ args.queue_size = 1
    /\ InitPipeVars
    /\ InitPartVars
    /\ phase = "preloading"
    /\ gen = 0
    /\ preloaded_batches = <<>>
    /\ crt_batch_id = NoneId
    /\ last = [op |-> "init", kind |-> "none"]
    /\ yielded = <<>>
    /\ advances = 0
    /\ began_from = NoneId
    /\ hyper \in {Hyper(x, 1) : x \in XmaxValues}
    /\ InitDataVars

\* preload_all_batches, one turn of its loop: the preloader's generator
\* yields its next partition, which is appended to the list.
PreloadStep ==
    /\ phase = "preloading"
    /\ gen < Len(PreloaderStream(ldr))
    /\ gen' = gen + 1
    /\ preloaded_batches' =
           AppendBatch(preloaded_batches, PreloaderStream(ldr)[gen + 1])
    /\ last' = [op |-> "preload", kind |-> "none"]
    /\ UNCHANGED <<args, ldr, phase, crt_batch_id, yielded, advances,
                   began_from, hyper>>
    /\ UNCHANGED <<pipeVars, partVars, dataVars>>

\* preload_all_batches: the generator is exhausted, construction is over.
PreloadDone ==
    /\ phase = "preloading"
    /\ gen = Len(PreloaderStream(ldr))
    /\ phase' = "ready"
    /\ last' = [op |-> "constructed", kind |-> "none"]
    /\ UNCHANGED <<args, ldr, gen, preloaded_batches, crt_batch_id, yielded,
                   advances, began_from, hyper>>
    /\ UNCHANGED <<pipeVars, partVars, dataVars>>

\* __iter__: begin a new traversal.
Iter ==
    /\ phase = "ready"
    /\ crt_batch_id' = BatchIter(Obj).crt_batch_id
    /\ preloaded_batches' = BatchIter(Obj).preloaded_batches
    /\ last' = [op |-> "iter", kind |-> "self"]
    /\ yielded' = <<>>
    /\ advances' = 0
    /\ began_from' = crt_batch_id
    /\ UNCHANGED <<args, ldr, phase, gen, hyper>>
    /\ UNCHANGED <<pipeVars, partVars, dataVars>>

\* __next__: advance the cursor; StopIteration past the last partition,
\* else the partition under the cursor, transformed with the current
\* hyperparameters. (Before any __iter__ the cursor is None and `+= 1`
\* raises TypeError.)
Next ==
    /\ phase = "ready"
    /\ advances < Len(preloaded_batches) + MaxExtra
    /\ IF crt_batch_id = NoneId
       THEN /\ last' = [op |-> "next", kind |-> "TypeError"]
            /\ UNCHANGED <<crt_batch_id, yielded, advances>>
       ELSE LET o == BatchAdvance(Obj)
            IN  /\ crt_batch_id' = o.crt_batch_id
                /\ advances' = advances + 1
                /\ IF BatchExhausted(o)
                   THEN /\ last' = [op |-> "next", kind |-> "StopIteration"]
                        /\ UNCHANGED yielded
                   ELSE IF ~IndexInRange(o)
                   THEN /\ last' = [op |-> "next", kind |-> "IndexError"]
                        /\ UNCHANGED yielded
                   ELSE /\ last' = [op |-> "next", kind |-> "batch",
                                    item |-> BatchCurrent(o),
                                    X_max |-> hyper.X_max]
                        /\ yielded' = Append(yielded, BatchCurrent(o))
    /\ UNCHANGED <<args, ldr, phase, gen, preloaded_batches, began_from, hyper>>
    /\ UNCHANGED <<pipeVars, partVars, dataVars>>

\* The training code changes a hyperparameter between calls.
SetHyper ==
    /\ phase = "ready"
    /\ \E x \in XmaxValues \ {hyper.X_max} : hyper' = [hyper EXCEPT !.X_max = x]
    /\ last' = [op |-> "set_hyper", kind |-> "none"]
    /\ UNCHANGED <<args, ldr, phase, gen, preloaded_batches, crt_batch_id,
                   yielded, advances, began_from>>
    /\ UNCHANGED <<pipeVars, partVars, dataVars>>

NextBatch == PreloadStep \/ PreloadDone \/ Iter \/ Next \/ SetHyper

SpecBatch == InitBatch /\ [][NextBatch]_vars

(***************************************************************************)
(* Properties of the batch iterator.                                       *)
(***************************************************************************)
Min(a, b) == IF a <= b THEN a ELSE b

\* C7: once constructed, len(loader) is the number of partitions the
\* preloader produced; the batches returned since the last __iter__ are the
\* first partitions of the preloader's sequence, in its order, one per
\* advance; and when StopIteration ends the traversal they are all of them,
\* however far an earlier traversal had got when this one began.
C7_Traversal ==
    phase = "ready" =>
        LET produced == PreloaderStream(ldr)
        IN  /\ BatchLen(Obj) = Len(produced)
            /\ crt_batch_id # NoneId =>
                  yielded = SubSeq(produced, 1, Min(advances, Len(produced)))
            /\ (last.op = "next" /\ last.kind = "batch") =>
                  last.item = produced[advances]
            /\ (last.op = "next" /\ last.kind = "StopIteration") =>
                  /\ yielded = produced
                  /\ Len(yielded) = BatchLen(Obj)

\* C7 witness: a traversal of 4 partitions run to StopIteration, begun when
\* an earlier traversal had returned 2 of the 4.
C7_Witness ==
    /\ phase = "ready" /\ BatchLen(Obj) = 4
    /\ last.op = "next" /\ last.kind = "StopIteration" /\ advances = 5
    /\ began_from = 1
    /\ Len(yielded) = 4

\* C8: a step that begins a traversal leaves the cursor before the first
\* partition (the next advance returns the first one), is idempotent, and
\* changes neither preloaded_batches nor the preloader nor the
\* hyperparameters.
C8_IterFrame ==
    [][last'.op = "iter" =>
          /\ preloaded_batches' = preloaded_batches
          /\ hyper' = hyper /\ ldr' = ldr /\ gen' = gen /\ phase' = phase
          /\ BatchLen(Obj') > 0 =>
                /\ ~BatchExhausted(BatchAdvance(Obj'))
                /\ BatchCurrent(BatchAdvance(Obj')) = preloaded_batches[1]
          /\ BatchLen(Obj') = 0 => BatchExhausted(BatchAdvance(Obj'))
          /\ BatchIter(Obj') = Obj'
      ]_vars

\* C8 witness: __iter__ called in the middle of a traversal of 4
\* partitions, the cursor having been on the third.
C8_Witness ==
    /\ last.op = "iter" /\ began_from = 2 /\ BatchLen(Obj) = 4
    /\ crt_batch_id = -1 /\ advances = 0

\* C9: after a reset, an advance raises StopIteration exactly when it is
\* advance number len(loader)+1 or later since that reset; every other
\* advance returns a batch.
C9_StopIteration ==
    (phase = "ready" /\ last.op = "next" /\ crt_batch_id # NoneId) =>
        /\ last.kind \in {"batch", "StopIteration"}
        /\ (last.kind = "StopIteration") <=> (advances > BatchLen(Obj))
        /\ (last.kind = "batch") <=> (advances <= BatchLen(Obj))

\* C9 witness: the second advance past the end of 4 partitions raises
\* StopIteration again.
C9_Witness ==
    /\ phase = "ready" /\ BatchLen(Obj) = 4
    /\ last.op = "next" /\ last.kind = "StopIteration" /\ advances = 6

\* C10 as stated: while the generator is on a sector, nothing retained (its
\* frame, the preload-all list) holds the Nxx of another sector.
C10_Original ==
    (phase = "preloading" /\ gen > 0) =>
        HeldSectors(preloaded_batches) \cup FrameSectors(ldr, gen)
            \subseteq {PreloaderStream(ldr)[gen][1]}

\* C10 (amended): at each yield the generator's frame references the Nxx of
\* the one sector it is on, but the preload-all list keeps the shards of
\* every sector yielded so far, and once construction is over it holds the
\* Nxx cells of all sector_factor^2 sectors.
C10_Retention ==
    /\ phase = "preloading" =>
          /\ Cardinality(FrameSectors(ldr, gen)) <= 1
          /\ FrameSectors(ldr, gen) \subseteq HeldSectors(preloaded_batches)
    /\ HeldSectors(preloaded_batches) =
          {PreloaderStream(ldr)[j][1] : j \in 1..gen}
    /\ phase = "ready" =>
          HeldSectors(preloaded_batches) =
              0..(args.sector_factor * args.sector_factor - 1)

\* C10 witness: construction over 9 sectors finished, the list holding all 9.
C10_Witness ==
    /\ phase = "ready" /\ args.sector_factor = 3
    /\ Cardinality(HeldSectors(preloaded_batches)) = 9

(***************************************************************************)
(* Tensor values. A value is an extended real: a rational n/d ("fin"), the *)
(* logarithm of a positive rational other than 1 ("ln": ln(n/d)), the      *)
(* square root of a positive rational ("sqrt"), +inf, -inf or nan, with    *)
(* the arithmetic of IEEE floats on them (rounding apart).                 *)
(***************************************************************************)
Abs(x) == IF x < 0 THEN -x ELSE x

RECURSIVE Gcd(_, _)
Gcd(a, b) == IF b = 0 THEN a ELSE Gcd(b, a % b)

NaN == [k |-> "nan", n |-> 0, d |-> 1]
PInf == [k |-> "pinf", n |-> 0, d |-> 1]
NInf == [k |-> "ninf", n |-> 0, d |-> 1]

\* The rational n/d (d # 0) in lowest terms with a positive denominator.
Fin(n, d) ==
    LET g == Gcd(Abs(n), Abs(d))
        sg == IF d < 0 THEN -1 ELSE 1
    IN  [k |-> "fin", n |-> (sg * n) \div g, d |-> (sg * d) \div g]

Zero == Fin(0, 1)
One == Fin(1, 1)

\* ln(n/d) for n, d > 0; ln 1 is the number 0.
Ln(n, d) ==
    IF n = d THEN Zero
    ELSE LET g == Gcd(n, d) IN [k |-> "ln", n |-> n \div g, d |-> d \div g]

\* sqrt(n/d) for n >= 0, d > 0; sqrt 0 is the number 0.
Sqrt(n, d) ==
    IF n = 0 THEN Zero
    ELSE LET g == Gcd(n, d) IN [k |-> "sqrt", n |-> n \div g, d |-> d \div g]

IsFinite(v) == v.k \in {"fin", "ln", "sqrt"}
IsZero(v) == v.k = "fin" /\ v.n = 0

\* -1, 0 or 1: the sign of a value other than nan.
Sign(v) ==
    CASE v.k = "pinf" -> 1
      [] v.k = "ninf" -> -1
      [] v.k = "ln" -> IF v.n > v.d THEN 1 ELSE -1
      [] v.k = "sqrt" -> 1
      [] OTHER -> IF v.n > 0 THEN 1 ELSE IF v.n < 0 THEN -1 ELSE 0

Inf(sign) == IF sign > 0 THEN PInf ELSE NInf

FNeg(a) ==
    CASE a.k = "fin" -> Fin(-a.n, a.d)
      [] a.k = "ln" -> Ln(a.d, a.n)
      [] a.k = "pinf" -> NInf
      [] a.k = "ninf" -> PInf
      [] OTHER -> NaN

\* a + b. Logarithms add to the logarithm of the product.
FAdd(a, b) ==
    CASE a.k = "nan" \/ b.k = "nan" -> NaN
      [] a.k \in {"pinf", "ninf"} /\ b.k \in {"pinf", "ninf"} ->
            IF a.k = b.k THEN a ELSE NaN
      [] a.k \in {"pinf", "ninf"} -> a
      [] b.k \in {"pinf", "ninf"} -> b
      [] a.k = "fin" /\ b.k = "fin" ->
            LET g == Gcd(a.d, b.d)
            IN  Fin(a.n * (b.d \div g) + b.n * (a.d \div g), (a.d \div g) * b.d)
      [] a.k = "ln" /\ b.k = "ln" -> Ln(a.n * b.n, a.d * b.d)
      [] IsZero(a) -> b
      [] IsZero(b) -> a
      [] OTHER -> [k |-> "sum", n |-> 0, d |-> 1]

FSub(a, b) == FAdd(a, FNeg(b))

\* The product of two rationals, cancelling before multiplying.
RMul(a, b) ==
    LET g == Gcd(Abs(a.n), b.d)
        h == Gcd(Abs(b.n), a.d)
    IN  Fin((a.n \div g) * (b.n \div h), (a.d \div h) * (b.d \div g))

\* a * b.
FMul(a, b) ==
    CASE a.k = "nan" \/ b.k = "nan" -> NaN
      [] a.k \in {"pinf", "ninf"} \/ b.k \in {"pinf", "ninf"} ->
            IF Sign(a) * Sign(b) = 0 THEN NaN ELSE Inf(Sign(a) * Sign(b))
      [] a.k = "fin" /\ b.k = "fin" -> RMul(a, b)
      [] IsZero(a) \/ IsZero(b) -> Zero
      [] a.k = "sqrt" /\ b.k = "sqrt" /\ a.n = b.n /\ a.d = b.d -> Fin(a.n, a.d)
      [] a.k = "sqrt" /\ b.k = "fin" /\ b.n > 0 ->
            LET sq == RMul(RMul(Fin(a.n, a.d), b), b) IN Sqrt(sq.n, sq.d)
      [] a.k = "fin" /\ b.k = "sqrt" /\ a.n > 0 ->
            LET sq == RMul(RMul(Fin(b.n, b.d), a), a) IN Sqrt(sq.n, sq.d)
      [] OTHER -> [k |-> "product", n |-> 0, d |-> 1]

\* a / b: x/0 is an infinity of x's sign, 0/0 is nan.
FDiv(a, b) ==
    CASE a.k = "nan" \/ b.k = "nan" -> NaN
      [] a.k \in {"pinf", "ninf"} ->
            IF b.k \in {"pinf", "ninf"} THEN NaN
            ELSE Inf(Sign(a) * (IF Sign(b) < 0 THEN -1 ELSE 1))
      [] b.k \in {"pinf", "ninf"} -> Zero
      [] a.k = "fin" /\ b.k = "fin" ->
            IF b.n # 0 THEN RMul(a, Fin(b.d, b.n))
            ELSE IF a.n = 0 THEN NaN ELSE Inf(a.n)
      [] OTHER -> [k |-> "quotient", n |-> 0, d |-> 1]

\* a <= b for rationals and infinities (false with a nan).
FLeq(a, b) ==
    CASE a.k = "nan" \/ b.k = "nan" -> FALSE
      [] a.k = "ninf" \/ b.k = "pinf" -> TRUE
      [] a.k = "pinf" \/ b.k = "ninf" -> FALSE
      [] a.k = "fin" /\ b.k = "fin" -> a.n * b.d <= b.n * a.d
      [] (a.k = "ln" \/ IsZero(a)) /\ (b.k = "ln" \/ IsZero(b)) ->
            LET x == IF a.k = "ln" THEN a ELSE [n |-> 1, d |-> 1]
                y == IF b.k = "ln" THEN b ELSE [n |-> 1, d |-> 1]
            IN  x.n * y.d <= y.n * x.d
      [] OTHER -> Sign(a) < Sign(b)

\* torch.log: log 0 = -inf, the log of a negative number is nan.
FLog(v) ==
    CASE v.k = "fin" ->
            IF v.n > 0 THEN Ln(v.n, v.d) ELSE IF v.n = 0 THEN NInf ELSE NaN
      [] v.k = "pinf" -> PInf
      [] v.k \in {"ninf", "nan"} -> NaN
      [] OTHER -> [k |-> "log", n |-> 0, d |-> 1]

\* np.e ** v.
FExp(v) ==
    CASE v.k = "ln" -> Fin(v.n, v.d)
      [] IsZero(v) -> One
      [] v.k = "pinf" -> PInf
      [] v.k = "ninf" -> Zero
      [] v.k = "nan" -> NaN
      [] OTHER -> [k |-> "exp", n |-> v.n, d |-> v.d]

RECURSIVE IntPow(_, _)
IntPow(b, e) == IF e = 0 THEN 1 ELSE b * IntPow(b, e - 1)

\* v.pow(e) for an integer exponent e: x^0 = 1 for every x (a nan included),
\* 0^e = +inf for e < 0.
FPow(v, e) ==
    CASE e = 0 -> One
      [] v.k = "nan" -> NaN
      [] v.k = "fin" ->
            IF e > 0 THEN Fin(IntPow(v.n, e), IntPow(v.d, e))
            ELSE IF v.n = 0 THEN PInf
            ELSE Fin(IntPow(v.d, -e), IntPow(v.n, -e))
      [] v.k = "sqrt" /\ e = 2 -> Fin(v.n, v.d)
      [] v.k = "pinf" -> IF e > 0 THEN PInf ELSE Zero
      [] v.k = "ninf" ->
            IF e < 0 THEN Zero ELSE IF e % 2 = 0 THEN PInf ELSE NInf
      [] OTHER -> [k |-> "power", n |-> 0, d |-> 1]

\* torch.clamp(v, min=0): a nan stays a nan.
ClampMin0(v) ==
    IF v.k = "nan" THEN NaN ELSE IF Sign(v) < 0 THEN Zero ELSE v

\* torch.clamp(v, max=1.)
ClampMax1(v) ==
    IF v.k = "nan" THEN NaN ELSE IF FLeq(v, One) THEN v ELSE One

\* torch.sqrt of a rational.
FSqrt(v) ==
    CASE v.k = "fin" -> IF v.n < 0 THEN NaN ELSE Sqrt(v.n, v.d)
      [] v.k = "pinf" -> PInf
      [] OTHER -> NaN

(***************************************************************************)
(* Tensors: rows x cols values, positions counted from 1. A scalar is      *)
(* 1 x 1. Elementwise operations broadcast as torch does: two sizes of a   *)
(* dimension agree when they are equal or one of them is 1.                *)
(***************************************************************************)
Tensor(nr, nc, f(_, _)) ==
    [rows |-> nr, cols |-> nc,
     at |-> [p \in (1..nr) \X (1..nc) |-> f(p[1], p[2])]]

Scalar(v) == [rows |-> 1, cols |-> 1, at |-> [p \in {<<1, 1>>} |-> v]]

\* The outcome of an operation on tensors whose shapes do not broadcast
\* (torch raises RuntimeError).
ShapeMismatch == [rows |-> -1, cols |-> -1, at |-> <<>>]

IsTensor(t) == t.rows >= 0

Broadcastable(m, n) == m = n \/ m = 1 \/ n = 1
BroadDim(m, n) == IF m = 1 THEN n ELSE m

Elem(t, r, c) ==
    t.at[<<IF t.rows = 1 THEN 1 ELSE r, IF t.cols = 1 THEN 1 ELSE c>>]

\* x op y, elementwise with broadcasting.
Map2(op(_, _), x, y) ==
    IF ~IsTensor(x) \/ ~IsTensor(y) THEN ShapeMismatch
    ELSE IF ~(Broadcastable(x.rows, y.rows) /\ Broadcastable(x.cols, y.cols))
    THEN ShapeMismatch
    ELSE Tensor(BroadDim(x.rows, y.rows), BroadDim(x.cols, y.cols),
                LAMBDA r, c : op(Elem(x, r, c), Elem(y, r, c)))

Map1(op(_), x) ==
    IF ~IsTensor(x) THEN ShapeMismatch
    ELSE Tensor(x.rows, x.cols, LAMBDA r, c : op(x.at[<<r, c>>]))

\* t[mask] = v for a mask of t's shape.
MaskedFill(t, mask, v) ==
    IF ~IsTensor(t) \/ ~IsTensor(mask) THEN ShapeMismatch
    ELSE IF t.rows # mask.rows \/ t.cols # mask.cols THEN ShapeMismatch
    ELSE Tensor(t.rows, t.cols,
                LAMBDA r, c : IF mask.at[<<r, c>>] THEN v ELSE t.at[<<r, c>>])

\* t == 0 and t > 0, elementwise.
EqZero(t) ==
    IF ~IsTensor(t) THEN ShapeMismatch
    ELSE Tensor(t.rows, t.cols, LAMBDA r, c : IsZero(t.at[<<r, c>>]))

GtZero(t) ==
    IF ~IsTensor(t) THEN ShapeMismatch
    ELSE Tensor(t.rows, t.cols,
                LAMBDA r, c : t.at[<<r, c>>].k # "nan" /\ Sign(t.at[<<r, c>>]) > 0)

(***************************************************************************)
(* The stored cooccurrence data and the partitions cut from it.            *)
(***************************************************************************)
\* Largest count of one cell of the matrix.
MaxCount == 1
\* The sides of the cooccurrence matrices considered.
Dims == {1, 2}
\* How the stored marginals relate to the stored matrix: consistent, or
\* with Nx one row short (a corrupted source).
Faults == {"none", "short_Nx"}

RECURSIVE SumSeq(_)
SumSeq(s) == IF s = <<>> THEN 0 ELSE Head(s) + SumSeq(Tail(s))

\* The full marginals of an n x n matrix m (cells indexed from 0).
RowSums(m, n) == [r \in 1..n |-> SumSeq([c \in 1..n |-> m[<<r - 1, c - 1>>]])]
ColSums(m, n) == [c \in 1..n |-> SumSeq([r \in 1..n |-> m[<<r - 1, c - 1>>]])]

\* A cooccurrence source: Nxx with its marginals, its total and unigram
\* counts (word r occurring r times).
Cooccurrence(m, n, fault) ==
    [loaded |-> TRUE, side |-> n, Nxx |-> m,
     Nx |-> IF fault = "none" THEN RowSums(m, n)
            ELSE SubSeq(RowSums(m, n), 1, n - 1),
     Nxt |-> ColSums(m, n),
     N |-> SumSeq(RowSums(m, n)),
     uNx |-> [r \in 1..n |-> r],
     uNxt |-> [r \in 1..n |-> r],
     uN |-> SumSeq([r \in 1..n |-> r])]

\* BigramSector.load(path, sector_id): the sector's slice of Nxx (here the
\* absolute indices it holds) with the un-sliced marginals and total.
BigramSectorLoad(c, sector) ==
    [sector |-> sector, idx |-> LoadSector(sector, c.side),
     Nx |-> c.Nx, Nxt |-> c.Nxt, N |-> c.N,
     uNx |-> c.uNx, uNxt |-> c.uNxt, uN |-> c.uN]

\* Mutant: the marginal restricted to the sector's rows only.
ShardMarginal_SectorOnly(marginal, sel, shardsel) == SliceIdx(sel, marginal)

\* A marginal restricted to a shard's rows (or columns): the marginal
\* indexed with the sector's selector, and that with the shard's.
ShardMarginal(marginal, sel, shardsel) ==
    SliceIdx(shardsel, SliceIdx(sel, marginal))

ColumnTensor(s) == Tensor(Len(s), 1, LAMBDA r, c : Fin(s[r], 1))
RowTensor(s) == Tensor(1, Len(s), LAMBDA r, c : Fin(s[c], 1))

\* Sector.load_relative_shard(shard): (Nxx, Nx, Nxt, N), with Nxx the
\* sector's Nxx indexed with the shard and the marginals global values.
LoadRelativeShardCounts(c, sec, shard) ==
    LET idx == LoadRelativeShard(sec.idx, shard)
    IN  [Nxx |-> Tensor(Len(idx[1]), Len(idx[2]),
                        LAMBDA a, b : Fin(c.Nxx[<<idx[1][a], idx[2][b]>>], 1)),
         Nx |-> ColumnTensor(ShardMarginal(sec.Nx, sec.sector[1], shard[1])),
         Nxt |-> RowTensor(ShardMarginal(sec.Nxt, sec.sector[2], shard[2])),
         N |-> Scalar(Fin(sec.N, 1))]

\* Sector.load_relative_unigram_shard(shard): (uNx, uNxt, uN).
LoadRelativeUnigramShard(sec, shard) ==
    [uNx |-> ColumnTensor(ShardMarginal(sec.uNx, sec.sector[1], shard[1])),
     uNxt |-> RowTensor(ShardMarginal(sec.uNxt, sec.sector[2], shard[2])),
     uN |-> Scalar(Fin(sec.uN, 1))]

\* The item _preload_iter yields for shard k of sector i:
\* (shard_id * sector_id, bigram_data, unigram_data).
PreloadItem(l, c, i, k) ==
    LET sec == BigramSectorLoad(c, SectorIds(l)[i])
    IN  [id |-> CompositeId(l, i, k),
         bigram |-> LoadRelativeShardCounts(c, sec, ShardIds(l)[k]),
         unigram |-> LoadRelativeUnigramShard(sec, ShardIds(l)[k])]

(***************************************************************************)
(* corpus_stats: operations on corpus statistics used by the models.       *)
(***************************************************************************)
Log(t) == Map1(FLog, t)

\* calc_PMI hands the whole Nxx to torch.log.
LogOperand(bd) == bd.Nxx

\* calc_PMI: log N + log Nxx - log Nx - log Nxt, left to right.
CalcPMI(bd) ==
    Map2(FSub,
         Map2(FSub, Map2(FAdd, Log(bd.N), Log(LogOperand(bd))), Log(bd.Nx)),
         Log(bd.Nxt))

\* The positions of a tensor in row-major order.
Flat(t) ==
    [j \in 1..(t.rows * t.cols) |->
        <<((j - 1) \div t.cols) + 1, ((j - 1) % t.cols) + 1>>]

\* t[mask]: the values of t where the mask holds, in row-major order. The
\* mask must have t's shape (torch raises IndexError otherwise).
MaskSelect(t, mask) ==
    LET sel == SelectSeq(Flat(t), LAMBDA q : mask.at[q])
    IN  [j \in 1..Len(sel) |-> t.at[sel[j]]]

RECURSIVE FSum(_)
FSum(s) == IF s = <<>> THEN Zero ELSE FAdd(Head(s), FSum(Tail(s)))

\* torch.mean of a flat tensor: nan when it is empty.
Mean(s) == FDiv(FSum(s), Fin(Len(s), 1))

\* torch.std of a flat tensor (unbiased): nan with fewer than two values.
Std(s) ==
    LET m == Mean(s)
        sq == [j \in 1..Len(s) |-> FMul(FSub(s[j], m), FSub(s[j], m))]
    IN  FSqrt(FDiv(FSum(sq), Fin(IF Len(s) > 0 THEN Len(s) - 1 ELSE 0, 1)))

\* calc_exp_pmi_stats: mean and standard deviation of exp(PMI) over the
\* cells of the given Nxx with Nxx > 0.
CalcExpPmiStats(bd) ==
    LET pmi == CalcPMI(bd)
    IN  IF ~IsTensor(pmi) \/ pmi.rows # bd.Nxx.rows \/ pmi.cols # bd.Nxx.cols
        THEN <<ShapeMismatch, ShapeMismatch>>
        ELSE LET kept == MaskSelect(pmi, GtZero(bd.Nxx))
                 exp_pmi == [j \in 1..Len(kept) |-> FExp(kept[j])]
             IN  <<Scalar(Mean(exp_pmi)), Scalar(Std(exp_pmi))>>

\* alpha = mean * (mean*(1-mean)/std**2 - 1)
PriorAlpha(mean, std) ==
    Map2(FMul, mean,
         Map2(FSub,
              Map2(FDiv,
                   Map2(FMul, mean, Map2(FSub, Scalar(One), mean)),
                   Map1(LAMBDA v : FPow(v, 2), std)),
              Scalar(One)))

\* beta = (1-mean) * alpha / mean
PriorBeta(mean, alpha) ==
    Map2(FDiv, Map2(FMul, Map2(FSub, Scalar(One), mean), alpha), mean)

\* return alpha, beta
AlphaBeta(mean, std) ==
    <<PriorAlpha(mean, std), PriorBeta(mean, PriorAlpha(mean, std))>>

\* calc_prior_beta_params: the moment-matched Beta prior, per cell, from
\* mean = exp_mean * Pxx_independent and std = exp_std * Pxx_independent.
CalcPriorBetaParams(bd, exp_mean, exp_std, Pxx_independent) ==
    AlphaBeta(Map2(FMul, exp_mean, Pxx_independent),
              Map2(FMul, exp_std, Pxx_independent))

(***************************************************************************)
(* The statistical transforms: _load of each loader class. p is the        *)
(* preloaded partition, h the loader's hyperparameters; the result is the  *)
(* dict returned next to the partition id.                                 *)
(***************************************************************************)
\* PPMILoader._load (both modules).
PPMILoad(p, h) ==
    [M |-> Map1(ClampMin0, CalcPMI(p.bigram))]

GloveWeights(Nxx, h) ==
    Map1(ClampMax1,
         Map1(LAMBDA v : FPow(FDiv(v, Fin(h.X_max, 1)), h.alpha), Nxx))

Double(t) == Map2(FMul, t, Scalar(Fin(2, 1)))

\* Mutant: the weights of the zero cells are not reset.
GloveLoad_NoWeightMask(p, h) ==
    [M |-> MaskedFill(Log(p.bigram.Nxx), EqZero(p.bigram.Nxx), Zero),
     weights |-> Double(GloveWeights(p.bigram.Nxx, h))]

\* GloveLoader._load (both modules).
GloveLoad(p, h) ==
    LET Nxx == p.bigram.Nxx
        Nxx_is_zero == EqZero(Nxx)
    IN  [M |-> MaskedFill(Log(Nxx), Nxx_is_zero, Zero),
         weights |-> Double(MaskedFill(GloveWeights(Nxx, h), Nxx_is_zero, Zero))]

\* negative_sample: k * (Nx - Nxx) * (uNxt / uN)
NegativeSample(Nxx, Nx, uNxt, uN, k) ==
    Map2(FMul, Map2(FMul, k, Map2(FSub, Nx, Nxx)), Map2(FDiv, uNxt, uN))

\* SGNSLoader._load (loaders.py) and Word2vecLoader._load (bigram_loader.py).
SGNSLoad(p, h) ==
    [Nxx |-> p.bigram.Nxx,
     N_neg |-> NegativeSample(p.bigram.Nxx, p.bigram.Nx, p.unigram.uNxt,
                              p.unigram.uN, Scalar(Fin(h.k, 1)))]

PxxIndependent(bd) == Map2(FMul, Map2(FDiv, bd.Nx, bd.N), Map2(FDiv, bd.Nxt, bd.N))

\* MLELoader._load (loaders.py).
MLELoad(p, h) ==
    [Pxx_data |-> Map2(FDiv, p.bigram.Nxx, p.bigram.N),
     Pxx_independent |-> PxxIndependent(p.bigram)]

\* MaxLikelihoodLoader._load (bigram_loader.py).
MaxLikelihoodLoad(p, h) ==
    [Pxx_data |-> Map2(FDiv, p.bigram.Nxx, p.bigram.N),
     Pxx_independent |-> PxxIndependent(p.bigram),
     temperature |-> h.temperature]

\* The prior both Bayesian loaders compute in _load: the moments of
\* exp(PMI) of the tuple at hand, then the Beta parameters per cell.
PriorRecord(stats, ab) ==
    [exp_mean |-> stats[1], exp_std |-> stats[2], alpha |-> ab[1], beta |-> ab[2]]

PriorFromStats(bd, stats) ==
    PriorRecord(stats,
                CalcPriorBetaParams(bd, stats[1], stats[2], PxxIndependent(bd)))

Prior(bd) == PriorFromStats(bd, CalcExpPmiStats(bd))

\* Mutant: the posterior total without the "- 1".
NPosterior_NoMinusOne(bd, pr) ==
    Map2(FAdd, Map2(FAdd, bd.N, pr.alpha), pr.beta)

\* N_posterior = N + alpha + beta - 1
NPosterior(bd, pr) ==
    Map2(FSub, Map2(FAdd, Map2(FAdd, bd.N, pr.alpha), pr.beta), Scalar(One))

\* The dict of the Max-Posterior loader for the counts bd and the prior pr.
MaxPosteriorDict(bd, pr, h) ==
    [N |-> bd.N,
     N_posterior |-> NPosterior(bd, pr),
     Pxx_posterior |-> Map2(FDiv, Map2(FAdd, bd.Nxx, pr.alpha), NPosterior(bd, pr)),
     Pxx_independent |-> PxxIndependent(bd),
     temperature |-> h.temperature]

\* MaxPosteriorLoader._load (bigram_loader.py).
MaxPosteriorLoad(p, h) == MaxPosteriorDict(p.bigram, Prior(p.bigram), h)

\* torch.digamma(x) - torch.digamma(y), kept as the pair of its arguments.
DigammaDiff(x, y) == [k |-> "digamma_diff", x |-> x, y |-> y]

\* a = Nxx + alpha and b = N - Nxx + beta
PosteriorA(bd, pr) == Map2(FAdd, bd.Nxx, pr.alpha)
PosteriorB(bd, pr) == Map2(FAdd, Map2(FSub, bd.N, bd.Nxx), pr.beta)

\* The dict of the KL loader for the counts bd, the prior pr and a, b.
KLDict(bd, pr, a, b, h) ==
    [digamma_a |-> Map2(DigammaDiff, a, Map2(FAdd, a, b)),
     digamma_b |-> Map2(DigammaDiff, b, Map2(FAdd, a, b)),
     N |-> bd.N,
     N_posterior |-> NPosterior(bd, pr),
     Pxx_independent |-> PxxIndependent(bd),
     temperature |-> h.temperature]

KLFromPrior(bd, pr, h) ==
    KLDict(bd, pr, PosteriorA(bd, pr), PosteriorB(bd, pr), h)

\* KLLoader._load (bigram_loader.py).
KLLoad(p, h) == KLFromPrior(p.bigram, Prior(p.bigram), h)

\* The _load of a loader class.
Load(cls, p, h) ==
    CASE cls.family = "PPMI" -> PPMILoad(p, h)
      [] cls.family = "GloVe" -> GloveLoad(p, h)
      [] cls.family = "SGNS" -> SGNSLoad(p, h)
      [] cls.family = "MLE" /\ cls.module = "loaders" -> MLELoad(p, h)
      [] cls.family = "MLE" /\ cls.module = "bigram_loader" -> MaxLikelihoodLoad(p, h)
      [] cls.family = "MaxPosterior" -> MaxPosteriorLoad(p, h)
      [] cls.family = "KL" -> KLLoad(p, h)

\* The dict's entries that are tensors.
TensorKeys(batch) == DOMAIN batch \ {"temperature"}

\* A tensor operation of the transform raised (shapes that do not
\* broadcast): no dict is returned.
Raised(batch) == \E key \in TensorKeys(batch) : ~IsTensor(batch[key])

(***************************************************************************)
(* A loader of one model family over one cooccurrence source: partitions   *)
(* are preloaded and handed to the family's _load.                         *)
(***************************************************************************)
\* The loader classes of loaders.py and of bigram_loader.py.
LoaderClasses ==
    {[module |-> "loaders", family |-> f] : f \in {"PPMI", "GloVe", "SGNS", "MLE"}}
    \cup {[module |-> "bigram_loader", family |-> f] :
             f \in {"PPMI", "GloVe", "SGNS", "MLE", "MaxPosterior", "KL"}}

\* The values the hyperparameter alpha takes in the model.
AlphaValues == {-1, 0, 1}

\* The hyperparameters a class is constructed with: GloVe's X_max and
\* alpha vary, the other classes have none that enter the values.
HyperSpace(cls) ==
    IF cls.family = "GloVe"
    THEN {Hyper(x, a) : x \in XmaxValues, a \in AlphaValues}
    ELSE {Hyper(1, 1)}

InitData ==
    /\ InitCommon
    /\ args.num_loaders = 1 /\ args.queue_size = 1
    /\ InitPipeVars
    /\ V \in Dims
    /\ args.sector_factor <= V /\ args.shard_factor <= V
    /\ pres = [op |-> "none"]
    /\ InitIterVars
    /\ loader_class \in LoaderClasses
    /\ hyper \in HyperSpace(loader_class)
    /\ \E m \in [Grid(V) -> 0..MaxCount], fault \in Faults :
          /\ fault # "none" => hyper.X_max = 1 /\ hyper.alpha = 1
          /\ corpus = Cooccurrence(m, V, fault)
    /\ part = [loaded |-> FALSE]
    /\ out = [kind |-> "none"]
    /\ device = StagingDevice
    /\ earlier = <<>>

\* The position in the preloader's sequence of the partition it yields next.
NextPos == IF part.loaded THEN part.pos + 1 ELSE 1

\* The preloader yields its next partition (the one before it, if any, has
\* been through _load).
LoadShard ==
    /\ NextPos \in DOMAIN PreloaderStream(ldr)
    /\ part.loaded => out.kind # "none"
    /\ LET ik == PreloaderStream(ldr)[NextPos]
           item == PreloadItem(ldr, corpus, ik[1], ik[2])
       IN  part' = [loaded |-> TRUE, pos |-> NextPos, i |-> ik[1], k |-> ik[2],
                    id |-> item.id, bigram |-> item.bigram,
                    unigram |-> item.unigram]
    /\ out' = [kind |-> "none"]
    /\ UNCHANGED <<args, ldr, hyper, loader_class, corpus, device, earlier>>
    /\ UNCHANGED <<pipeVars, partVars, batchVars>>

\* What the caller of _load gets: the id with the dict, or torch's error.
Outcome(id, batch) ==
    IF Raised(batch) THEN [kind |-> "RuntimeError"]
    ELSE [kind |-> "batch", id |-> id, batch |-> batch]

\* __next__ hands the partition to _load: the batch, or torch's error.
ApplyLoad ==
    /\ part.loaded
    /\ out.kind = "none"
    /\ out' = Outcome(part.id, Load(loader_class, part, hyper))
    /\ UNCHANGED <<args, ldr, hyper, loader_class, corpus, part, device,
                   earlier>>
    /\ UNCHANGED <<pipeVars, partVars, batchVars>>

NextData ==
    \/ LoadShard
    \/ ApplyLoad

SpecData == InitData /\ [][NextData]_vars

(***************************************************************************)
(* Properties of the preloaded partitions and of the transforms.           *)
(***************************************************************************)
\* The stored marginals are those of the stored matrix.
SourceConsistent ==
    /\ corpus.Nx = RowSums(corpus.Nxx, corpus.side)
    /\ corpus.Nxt = ColSums(corpus.Nxx, corpus.side)

\* The absolute rows and columns of the matrix that a partition id selects.
IdRows(id) == SliceIdx(id[1], Axis(V))
IdCols(id) == SliceIdx(id[2], Axis(V))

\* C11: in every partition the preloader yields from a consistent source,
\* Nx has one entry per row of the partition's Nxx and entry a is the sum
\* of the whole matrix row that row a comes from, over all V columns;
\* likewise Nxt over all V rows; and N is the total of the whole matrix,
\* the same in every partition.
C11_GlobalMarginals ==
    (part.loaded /\ SourceConsistent) =>
        LET bd == part.bigram
            rows == IdRows(part.id)
            cols == IdCols(part.id)
        IN  /\ bd.Nx.rows = bd.Nxx.rows /\ bd.Nx.rows = Len(rows)
            /\ bd.Nxt.cols = bd.Nxx.cols /\ bd.Nxt.cols = Len(cols)
            /\ \A a \in 1..Len(rows) :
                  bd.Nx.at[<<a, 1>>] = Fin(RowSums(corpus.Nxx, V)[rows[a] + 1], 1)
            /\ \A b \in 1..Len(cols) :
                  bd.Nxt.at[<<1, b>>] = Fin(ColSums(corpus.Nxx, V)[cols[b] + 1], 1)
            /\ bd.N = Scalar(Fin(SumSeq(RowSums(corpus.Nxx, V)), 1))

\* C11 witness: the partition of sector 3 of the 2 x 2 grid on the matrix
\* [[0,0],[1,1]]: its Nxx is the one cell 1, its Nx is the row sum 2, its
\* Nxt the column sum 1 and N is 2.
C11_Witness ==
    /\ part.loaded /\ SourceConsistent
    /\ args.sector_factor = 2 /\ args.shard_factor = 1 /\ part.i = 3
    /\ part.bigram.Nxx = Scalar(Fin(1, 1))
    /\ part.bigram.Nx = Scalar(Fin(2, 1))
    /\ part.bigram.Nxt = Scalar(Fin(1, 1))
    /\ part.bigram.N = Scalar(Fin(2, 1))

\* 2 * min(1, (x / X_max)^alpha) for a count x > 0, X_max > 0 and an integer
\* alpha, computed on integers.
GloveWeightOf(x, X_max, alpha) ==
    LET num == IF alpha >= 0 THEN IntPow(x, alpha) ELSE IntPow(X_max, -alpha)
        den == IF alpha >= 0 THEN IntPow(X_max, alpha) ELSE IntPow(x, -alpha)
    IN  IF num >= den THEN Fin(2, 1) ELSE Fin(2 * num, den)

\* C12: in the dict GloVe's _load returns, M and weights have the shape of
\* Nxx; every cell with Nxx = 0 has M = 0 and weights = 0, for every X_max
\* and alpha; every cell with Nxx > 0 has weights = 2*min(1, (Nxx/X_max)^alpha);
\* and every weight lies in [0, 2].
C12_GloveZeroCells ==
    (out.kind = "batch" /\ loader_class.family = "GloVe") =>
        LET Nxx == part.bigram.Nxx
            M == out.batch.M
            weights == out.batch.weights
        IN  /\ DOMAIN M.at = DOMAIN Nxx.at /\ DOMAIN weights.at = DOMAIN Nxx.at
            /\ \A q \in DOMAIN Nxx.at :
                  /\ IsZero(Nxx.at[q]) => (M.at[q] = Zero /\ weights.at[q] = Zero)
                  /\ Nxx.at[q].n > 0 =>
                        weights.at[q] =
                            GloveWeightOf(Nxx.at[q].n, hyper.X_max, hyper.alpha)
                  /\ FLeq(Zero, weights.at[q]) /\ FLeq(weights.at[q], Fin(2, 1))

\* C12 witness: GloVe with X_max = 2 and alpha = -1 on the whole matrix
\* [[0,1],[1,1]]: the zero cell has M = 0 and weights = 0 (its weight before
\* the reset is 2), the other cells have weights = 2*min(1, 2) = 2.
C12_Witness ==
    /\ out.kind = "batch" /\ loader_class.family = "GloVe"
    /\ hyper.X_max = 2 /\ hyper.alpha = -1
    /\ part.bigram.Nxx.rows = 2 /\ part.bigram.Nxx.cols = 2
    /\ IsZero(part.bigram.Nxx.at[<<1, 1>>])
    /\ out.batch.M.at[<<1, 1>>] = Zero /\ out.batch.weights.at[<<1, 1>>] = Zero
    /\ part.bigram.Nxx.at[<<1, 2>>] = One
    /\ out.batch.weights.at[<<1, 2>>] = Fin(2, 1)
    /\ Double(GloveWeights(part.bigram.Nxx, hyper)).at[<<1, 1>>] = Fin(2, 1)

\* max(0, log N + log x - log nx - log nxt) for positive counts, computed
\* on integers: ln(N*x / (nx*nxt)) when that ratio is at least 1, else 0.
PPMIOf(x, nx, nxt, N) ==
    IF N * x >= nx * nxt THEN Ln(N * x, nx * nxt) ELSE Zero

\* C13 as stated: in the dict PPMI's _load returns for a partition of a
\* consistent source, every M is a number >= 0, M = 0 in every cell with
\* Nxx = 0, M = max(0, log N + log Nxx - log Nx - log Nxt) in every cell
\* with Nxx > 0, and no cell with Nxx = 0 is handed to log.
C13_Original ==
    (out.kind = "batch" /\ loader_class.family = "PPMI" /\ SourceConsistent) =>
        LET bd == part.bigram
            M == out.batch.M
        IN  /\ DOMAIN M.at = DOMAIN bd.Nxx.at
            /\ \A q \in DOMAIN bd.Nxx.at :
                  /\ FLeq(Zero, M.at[q])
                  /\ IsZero(bd.Nxx.at[q]) => M.at[q] = Zero
                  /\ bd.Nxx.at[q].n > 0 =>
                        M.at[q] = PPMIOf(bd.Nxx.at[q].n, bd.Nx.at[<<q[1], 1>>].n,
                                         bd.Nxt.at[<<1, q[2]>>].n, bd.N.at[<<1, 1>>].n)
                  /\ ~IsZero(LogOperand(bd).at[q])

\* The counts of the whole matrix: the one partition of the 1 x 1 scheme.
WholeCounts(c) ==
    LoadRelativeShardCounts(c, BigramSectorLoad(c, Shards(1)[0]), Shards(1)[0])

\* C14 as stated: whenever the Max-Posterior or KL _load has transformed a
\* partition of a consistent source, the moments exp_mean and exp_std it
\* used are those of exp(PMI) over all cells of the whole matrix with
\* Nxx > 0 (hence the same pair for every shard of the traversal).
C14_Original ==
    (out.kind = "batch" /\ loader_class.family \in {"MaxPosterior", "KL"}
        /\ SourceConsistent) =>
        LET pr == Prior(part.bigram)
        IN  <<pr.exp_mean, pr.exp_std>> = CalcExpPmiStats(WholeCounts(corpus))

\* The expected Beta parameters of test_calc_prior_beta_params, for one
\* cell with independence probability p: means = exp_mean * p,
\* stds = exp_std * p, alpha = means * (means * (1 - means) / stds^2 - 1),
\* beta = (1 - means) / means * alpha.
MomentMatched(exp_mean, exp_std, p) ==
    LET mean == FMul(exp_mean, p)
        std == FMul(exp_std, p)
        alpha == FMul(mean, FSub(FDiv(FMul(mean, FSub(One, mean)), FPow(std, 2)), One))
    IN  [alpha |-> alpha, beta |-> FMul(FDiv(FSub(One, mean), mean), alpha)]

\* C15: in the dict the Max-Posterior or KL _load returns for a partition of
\* a consistent source, with alpha and beta of each cell moment-matched from
\* the moments the transform used and the cell's (Nx/N)*(Nxt/N), every cell
\* has N_posterior = N + alpha + beta - 1; Max-Posterior's Pxx_posterior is
\* (Nxx + alpha) / N_posterior; KL's digamma_a and digamma_b are taken at
\* a = Nxx + alpha and b = N - Nxx + beta (against a + b).
C15_PosteriorOutputs ==
    (out.kind = "batch" /\ loader_class.family \in {"MaxPosterior", "KL"}
        /\ SourceConsistent) =>
        LET bd == part.bigram
            pr == Prior(bd)
            N == bd.N.at[<<1, 1>>]
        IN  /\ DOMAIN out.batch.N_posterior.at = DOMAIN bd.Nxx.at
            /\ \A q \in DOMAIN bd.Nxx.at :
                  LET p == FMul(FDiv(bd.Nx.at[<<q[1], 1>>], N),
                                FDiv(bd.Nxt.at[<<1, q[2]>>], N))
                      mm == MomentMatched(pr.exp_mean.at[<<1, 1>>],
                                          pr.exp_std.at[<<1, 1>>], p)
                      Np == FSub(FAdd(FAdd(N, mm.alpha), mm.beta), One)
                      a == FAdd(bd.Nxx.at[q], mm.alpha)
                      b == FAdd(FSub(N, bd.Nxx.at[q]), mm.beta)
                  IN  /\ out.batch.N_posterior.at[q] = Np
                      /\ loader_class.family = "MaxPosterior" =>
                            out.batch.Pxx_posterior.at[q] = FDiv(a, Np)
                      /\ loader_class.family = "KL" =>
                            /\ out.batch.digamma_a.at[q] = DigammaDiff(a, FAdd(a, b))
                            /\ out.batch.digamma_b.at[q] = DigammaDiff(b, FAdd(a, b))

\* C15 witness: Max-Posterior on the whole matrix [[1,1],[0,1]] (N = 3,
\* exp(PMI) of the positive cells 3/2, 3/4, 3/2: mean 5/4, variance 3/16).
\* Cell (0,0) has mean 5/18 and std^2 1/108, so alpha = 155/27 and
\* beta = 403/27: N_posterior = 68/3 and Pxx_posterior = 91/306.
C15_Witness ==
    /\ out.kind = "batch" /\ loader_class.family = "MaxPosterior"
    /\ SourceConsistent
    /\ part.bigram.Nxx.rows = 2 /\ part.bigram.Nxx.cols = 2
    /\ part.bigram.N = Scalar(Fin(3, 1))
    /\ part.bigram.Nxx.at[<<2, 1>>] = Zero
    /\ Prior(part.bigram).alpha.at[<<1, 1>>] = Fin(155, 27)
    /\ Prior(part.bigram).beta.at[<<1, 1>>] = Fin(403, 27)
    /\ out.batch.N_posterior.at[<<1, 1>>] = Fin(68, 3)
    /\ out.batch.Pxx_posterior.at[<<1, 1>>] = Fin(91, 306)

\* The shape of Nxx disagrees with the length of Nx or of Nxt.
ShapeInconsistent(bd) ==
    bd.Nx.rows # bd.Nxx.rows \/ bd.Nxt.cols # bd.Nxx.cols

\* A value of a returned dict is finite (a digamma difference: both of its
\* arguments are).
ValueFinite(v) ==
    IF v.k = "digamma_diff" THEN IsFinite(v.x) /\ IsFinite(v.y) ELSE IsFinite(v)

\* C16 as stated: when _load has been applied to a partition, it has failed
\* with ShapeError if the shape of Nxx disagrees with the lengths of Nx or
\* Nxt, and with NumericError if a value would be non-finite; so a dict is
\* returned only for consistent shapes and holds only finite values.
C16_Original ==
    out.kind # "none" =>
        /\ ShapeInconsistent(part.bigram) => out.kind = "ShapeError"
        /\ out.kind = "batch" =>
              \A key \in TensorKeys(out.batch) :
                  \A q \in DOMAIN out.batch[key].at :
                      ValueFinite(out.batch[key].at[q])
        /\ out.kind \in {"batch", "ShapeError", "NumericError"}

\* C17: once a worker has died before signalling completion, the consumer
\* never reports exhaustion; it reaches the failed state (it does not wait
\* for the missing signal forever); and in the failed state nothing that was
\* queued or consumed is left as a result.
C17_CrashIsFatal ==
    /\ [](crashed # {} => cstate # "exhausted")
    /\ [](cstate = "failed" =>
            (queue = <<>> /\ \A w \in Workers(ldr) : delivered[w] = <<>>))
    /\ (crashed # {}) ~> (cstate = "failed")

\* C17 witness: of two workers, worker 0 died after pushing an item; worker
\* 1 finished and its signal was counted; the consumer failed, with the
\* queue and the results discarded.
C17_Witness ==
    /\ cstate = "failed" /\ crashed = {0}
    /\ args.num_loaders = 2
    /\ wpos[0] >= 1 /\ ~wdone[0]
    /\ wdone[1] /\ num_complete = 1
    /\ queue = <<>> /\ \A w \in Workers(ldr) : delivered[w] = <<>>

\* The key set fixed for each model family.
FamilyKeys(family) ==
    CASE family = "PPMI" -> {"M"}
      [] family = "GloVe" -> {"M", "weights"}
      [] family = "SGNS" -> {"Nxx", "N_neg"}
      [] family = "MLE" -> {"Pxx_data", "Pxx_independent", "temperature"}
      [] family = "MaxPosterior" ->
             {"N", "N_posterior", "Pxx_posterior", "Pxx_independent", "temperature"}
      [] family = "KL" ->
             {"digamma_a", "digamma_b", "N", "N_posterior", "Pxx_independent",
              "temperature"}

\* C18 as stated: the dict a loader class returns for a partition has
\* exactly the keys fixed for its family, whichever of the two modules the
\* class is defined in.
C18_Original ==
    out.kind = "batch" => DOMAIN out.batch = FamilyKeys(loader_class.family)

\* C19: the id of a yielded partition differs from the id of every other
\* (sector, shard) pair of the traversal, and the rows and columns it
\* selects on the whole matrix are, in order, those whose counts the
\* partition's Nxx holds.
C19_IdIdentifiesRegion ==
    part.loaded =>
        LET items == PreloaderStream(ldr)
            rows == IdRows(part.id)
            cols == IdCols(part.id)
            Nxx == part.bigram.Nxx
        IN  /\ \A j \in DOMAIN items :
                  items[j] # <<part.i, part.k>> =>
                      CompositeId(ldr, items[j][1], items[j][2]) # part.id
            /\ Nxx.rows = Len(rows) /\ Nxx.cols = Len(cols)
            /\ \A a \in 1..Len(rows), b \in 1..Len(cols) :
                  Nxx.at[<<a, b>>] = Fin(corpus.Nxx[<<rows[a], cols[b]>>], 1)

\* C19 witness: shard 0 of sector 3 in the 2 x 2 / 2 x 2 scheme on the
\* matrix [[0,0],[0,1]]: the id is (1::4, 1::4), it selects the cell (1,1),
\* and the partition's Nxx is that cell's count 1.
C19_Witness ==
    /\ part.loaded
    /\ args.sector_factor = 2 /\ args.shard_factor = 2
    /\ part.i = 3 /\ part.k = 0
    /\ part.id = <<Slice(1, 4), Slice(1, 4)>>
    /\ Cells(part.id, V) = {<<1, 1>>}
    /\ corpus.Nxx[<<1, 1>>] = 1 /\ corpus.N = 1
    /\ part.bigram.Nxx = Scalar(One)

\* The j-th item of worker w in the fixed order: its sectors w, w + n,
\* w + 2n, ... (n loaders) in increasing index, each with all its Fd*Fd
\* shards in scheme order before the next sector.
OrderedItem(l, w, j) ==
    LET per == l.shard_factor * l.shard_factor
    IN  <<w + l.num_loaders * ((j - 1) \div per), (j - 1) % per>>

\* C20: every worker's generator yields its items in the fixed order, and
\* what the consumer has received from a worker, followed by what is queued
\* from it, is at every moment a prefix of that order, whatever the
\* interleaving with the other workers.
C20_WorkerOrder ==
    \A w \in Workers(ldr) :
        /\ \A j \in DOMAIN stream[w] : stream[w][j] = OrderedItem(ldr, w, j)
        /\ LET got == delivered[w] \o QueuedOf(w)
           IN  /\ Len(got) <= Len(stream[w])
               /\ \A j \in DOMAIN got : got[j] = OrderedItem(ldr, w, j)

\* C20 witness: two workers over 4 sectors of 4 shards; the consumer has
\* received sector 0 whole and the first shard of sector 2 from worker 0,
\* and, in between, the first two shards of sector 1 from worker 1.
C20_Witness ==
    /\ args.num_loaders = 2 /\ args.sector_factor = 2 /\ args.shard_factor = 2
    /\ delivered[0] = <<<<0, 0>>, <<0, 1>>, <<0, 2>>, <<0, 3>>, <<2, 0>>>>
    /\ delivered[1] = <<<<1, 0>>, <<1, 1>>>>
    /\ cstate = "running"

(***************************************************************************)
(* Traversals of a constructed batch loader over real data. The tensors of *)
(* a stored partition are objects, named "Nxx", "Nx", "Nxt", "N"; _load    *)
(* works on a heap of such objects, in which `.to(device)` either returns  *)
(* the stored object or adds a copy, an operation such as torch.log adds a *)
(* new object, and an indexed assignment writes into an existing one.      *)
(***************************************************************************)
\* The devices a loader is constructed with: the staging device (or None,
\* which leaves the tensors where they are) and another one.
Devices == {StagingDevice, "cuda"}

\* The counts of the cells of the sources traversed: a pair of words
\* cooccurs once or never.
EpochCounts == {0, 1}

\* The values the hyperparameters k and temperature take in the model.
KValues == {DefaultK, 1}
TemperatureValues == {DefaultTemperature, 2}

\* The attribute values a loader of a family is run with: the family's own
\* knobs vary (X_max and alpha of GloVe, k of SGNS, temperature of the
\* likelihood-based families), PPMI has none.
HyperValues(family) ==
    CASE family = "GloVe" -> {Hyper(1, 1), Hyper(2, 1), Hyper(2, 2)}
      [] family = "SGNS" -> {[Hyper(1, 1) EXCEPT !.k = v] : v \in KValues}
      [] family \in {"MLE", "MaxPosterior", "KL"} ->
            {[Hyper(1, 1) EXCEPT !.temperature = v] : v \in TemperatureValues}
      [] OTHER -> {Hyper(1, 1)}

\* The name of the object `tensor.to(device)` returns: the tensor itself
\* when it is on that device already, a copy otherwise.
Moved == [Nxx |-> "Nxx_moved", Nx |-> "Nx_moved", Nxt |-> "Nxt_moved",
          N |-> "N_moved"]
Local(obj, dev) == IF dev = StagingDevice THEN obj ELSE Moved[obj]

\* `tuple(tensor.to(self.device) for tensor in cooccurrence_data)`: the
\* heap with the copies made, if any.
ToDevice(hp, dev) ==
    IF dev = StagingDevice THEN hp
    ELSE [o \in {Moved[x] : x \in DOMAIN hp} |->
             hp[CHOOSE x \in DOMAIN hp : Moved[x] = o]] @@ hp

\* The heap with object obj holding t: a new object, or a write into an
\* existing one.
Put(hp, obj, t) == (obj :> t) @@ hp

\* Mutant: the logarithm is taken in place, M is the tensor Nxx itself.
MObject_LogInPlace(nxx) == nxx

\* `M = torch.log(Nxx)`: M names a new tensor.
MObject(nxx) == "M"

\* `weights = (Nxx / self.X_max).pow(self.alpha)` and
\* `weights = torch.clamp(weights, max=1.)`
GloveWeigh(hp, h, nxx) == Put(hp, "weights", GloveWeights(hp[nxx], h))

\* `M = torch.log(Nxx)`
GloveLog(hp, nxx) == Put(hp, MObject(nxx), Log(hp[nxx]))

\* `t[mask] = 0`, written into the object obj.
ZeroFill(hp, obj, mask) == Put(hp, obj, MaskedFill(hp[obj], mask, Zero))

\* `M[Nxx_is_zero] = 0` and `weights[Nxx_is_zero] = 0`
GloveMasked(hp, nxx, Nxx_is_zero) ==
    ZeroFill(ZeroFill(hp, MObject(nxx), Nxx_is_zero), "weights", Nxx_is_zero)

\* `Nxx_is_zero = (Nxx==0)` and the two assignments under that mask.
GloveZero(hp, nxx) == GloveMasked(hp, nxx, EqZero(hp[nxx]))

\* `weights = weights * 2`: a new tensor.
GloveDouble(hp) == Put(hp, "weights_x2", Double(hp["weights"]))

\* The statements of GloveLoader._load in order, on the heap hp with nxx
\* the object its local name Nxx refers to.
GloveRun(hp, h, nxx) ==
    GloveDouble(GloveZero(GloveLog(GloveWeigh(hp, h, nxx), nxx), nxx))

\* What a run leaves: the dict returned and the stored tensors.
GloveOutcome(run, nxx) ==
    [batch |-> [M |-> run[MObject(nxx)], weights |-> run["weights_x2"]],
     bigram |-> [o \in {"Nxx", "Nx", "Nxt", "N"} |-> run[o]]]

\* _load of a loader class run on the stored partition p itself: the dict
\* it returns and the partition's tensors after the call. GloVe's _load is
\* the only one with assignments into a tensor; the others build their
\* outputs with operations that return new tensors.
RunLoad(cls, p, h, dev) ==
    IF cls.family = "GloVe"
    THEN GloveOutcome(GloveRun(ToDevice(p.bigram, dev), h, Local("Nxx", dev)),
                      Local("Nxx", dev))
    ELSE [batch |-> Load(cls, p, h), bigram |-> p.bigram]

\* preload_all_batches over the source c: the preloader's partitions, in
\* its order.
PreloadAll(l, c) ==
    [j \in 1..Len(PreloaderStream(l)) |->
        PreloadItem(l, c, PreloaderStream(l)[j][1], PreloaderStream(l)[j][2])]

\* A loader of one class constructed over a cooccurrence source whose
\* partitions are all non-empty.
InitEpochs ==
    /\ InitCommon
    /\ args.num_loaders = 1 /\ args.queue_size = 1
    /\ InitPipeVars
    /\ V \in Dims
    /\ args.sector_factor * args.shard_factor <= V
    /\ pres = [op |-> "none"]
    /\ loader_class \in LoaderClasses
    /\ hyper \in HyperValues(loader_class.family)
    /\ device \in Devices
    /\ \E m \in [Grid(V) -> EpochCounts] : corpus = Cooccurrence(m, V, "none")
    /\ phase = "ready"
    /\ gen = Len(PreloaderStream(ldr))
    /\ preloaded_batches = PreloadAll(ldr, corpus)
    /\ crt_batch_id = NoneId
    /\ last = [op |-> "constructed", kind |-> "none"]
    /\ yielded = <<>>
    /\ advances = 0
    /\ began_from = NoneId
    /\ part = [loaded |-> FALSE]
    /\ out = [kind |-> "none"]
    /\ earlier = <<>>

\* No traversal is in progress: none has begun, or the last one has ended.
BetweenTraversals == crt_batch_id = NoneId \/ BatchExhausted(Obj)

\* __iter__, called to begin a traversal when none is in progress; the
\* batches of the one before are kept for comparison.
EpochIter ==
    /\ phase = "ready"
    /\ BetweenTraversals
    /\ crt_batch_id' = BatchIter(Obj).crt_batch_id
    /\ last' = [op |-> "iter", kind |-> "self"]
    /\ earlier' = yielded
    /\ yielded' = <<>>
    /\ advances' = 0
    /\ began_from' = crt_batch_id
    /\ UNCHANGED <<args, ldr, phase, gen, preloaded_batches, hyper>>
    /\ UNCHANGED <<pipeVars, partVars, loader_class, corpus, part, out, device>>

\* preloader.prepare(preloaded): the stored partition itself is handed on,
\* no copy is made.
Prepare(p) == p

\* The position in the list of the partition under the cursor.
CurrentIndex(o) ==
    IF o.crt_batch_id >= 0 THEN o.crt_batch_id + 1
    ELSE Len(o.preloaded_batches) + o.crt_batch_id + 1

\* `return self._load(prepared)`: _load has run on the stored partition
\* with result res; the caller gets the batch or torch's error.
Returned(o, res) ==
    /\ preloaded_batches' =
           [preloaded_batches EXCEPT ![CurrentIndex(o)].bigram = res.bigram]
    /\ out' = Outcome(BatchCurrent(o).id, res.batch)
    /\ last' = [op |-> "next", kind |-> out'.kind]
    /\ yielded' = Append(yielded, [pos |-> CurrentIndex(o), h |-> hyper,
                                   out |-> out'])

\* __next__ from the advanced cursor on.
EpochAdvance(o) ==
    /\ crt_batch_id' = o.crt_batch_id
    /\ advances' = advances + 1
    /\ IF BatchExhausted(o)
       THEN /\ last' = [op |-> "next", kind |-> "StopIteration"]
            /\ UNCHANGED <<preloaded_batches, out, yielded>>
       ELSE IF ~IndexInRange(o)
       THEN /\ last' = [op |-> "next", kind |-> "IndexError"]
            /\ UNCHANGED <<preloaded_batches, out, yielded>>
       ELSE Returned(o, RunLoad(loader_class, Prepare(BatchCurrent(o)), hyper,
                                device))

\* __next__: advance the cursor; StopIteration past the last partition,
\* else _load applied to the stored partition under the cursor with the
\* loader's attributes as they are now. (A traversal is followed up to its
\* StopIteration.)
EpochNext ==
    /\ phase = "ready"
    /\ advances <= Len(preloaded_batches)
    /\ IF crt_batch_id = NoneId
       THEN /\ last' = [op |-> "next", kind |-> "TypeError"]
            /\ UNCHANGED <<crt_batch_id, advances, preloaded_batches, out,
                           yielded>>
       ELSE EpochAdvance(BatchAdvance(Obj))
    /\ UNCHANGED <<args, ldr, phase, gen, began_from, hyper>>
    /\ UNCHANGED <<pipeVars, partVars, loader_class, corpus, part, device,
                   earlier>>

\* The training code assigns the loader's attributes between two
\* traversals: before the first, or when the last one has ended.
EpochSetHyper ==
    /\ phase = "ready"
    /\ BetweenTraversals
    /\ hyper' \in HyperValues(loader_class.family) \ {hyper}
    /\ UNCHANGED <<args, ldr, phase, gen, preloaded_batches, crt_batch_id, last,
                   yielded, advances, began_from>>
    /\ UNCHANGED <<pipeVars, partVars, dataVars>>

NextEpochs == EpochIter \/ EpochNext \/ EpochSetHyper

SpecEpochs == InitEpochs /\ [][NextEpochs]_vars

\* The partition stored at each position is the one preloaded at construction.
StoredIntact == preloaded_batches = PreloadAll(ldr, corpus)

(***************************************************************************)
(* Properties of traversals over stored partitions.                        *)
(***************************************************************************)
\* Every batch returned is _load applied, at the advance that returned it,
\* to the partition stored at its position with the attributes of that
\* moment.
EveryBatchFresh ==
    \A j \in DOMAIN yielded :
        /\ yielded[j].pos = j
        /\ yielded[j].out =
               Outcome(preloaded_batches[j].id,
                       Load(loader_class, preloaded_batches[j], yielded[j].h))

\* The batch is computed with the values h of its family's hyperparameters:
\* GloVe's weights with X_max and alpha, SGNS's negative samples with k,
\* the temperature of the likelihood-based families returned as it is.
ComputedWith(batch, family, raw, h) ==
    CASE family = "GloVe" ->
            batch.weights =
                Double(MaskedFill(GloveWeights(raw.bigram.Nxx, h),
                                  EqZero(raw.bigram.Nxx), Zero))
      [] family = "SGNS" ->
            batch.N_neg =
                NegativeSample(raw.bigram.Nxx, raw.bigram.Nx, raw.unigram.uNxt,
                               raw.unigram.uN, Scalar(Fin(h.k, 1)))
      [] family \in {"MLE", "MaxPosterior", "KL"} ->
            /\ "temperature" \in DOMAIN batch
            /\ batch.temperature = h.temperature
      [] OTHER -> TRUE

\* A hyperparameter was assigned between the traversal before and this one.
ChangedBetween ==
    /\ earlier # <<>>
    /\ yielded # <<>>
    /\ earlier[1].h # yielded[1].h

\* C21 as stated: when a hyperparameter (X_max, alpha, k, temperature) was
\* changed between two traversals, every batch of the later traversal is
\* computed from the stored partition with the new value.
C21_Original ==
    ChangedBetween =>
        \A j \in DOMAIN yielded :
            yielded[j].out.kind = "batch" =>
                ComputedWith(yielded[j].out.batch, loader_class.family,
                             preloaded_batches[j], yielded[j].h)

\* The same for every class but loaders.MLELoader, whose _load returns no
\* temperature.
FreshExceptMLELoader ==
    loader_class # [module |-> "loaders", family |-> "MLE"] => C21_Original

\* A later traversal whose first batch differs from the first batch of the
\* traversal before it, the hyperparameters having been changed in between.
ChangeObserved ==
    /\ ChangedBetween
    /\ yielded[1].out.kind = "batch"
    /\ earlier[1].out # yielded[1].out

(***************************************************************************)
(* corpus_stats.w2v_prob_keep. Its values are numbers q + s*sqrt(r) with   *)
(* rationals q and r > 0 and s one of -1, 0, 1, kept exact.                *)
(***************************************************************************)
\* Largest count of a word and largest total of the unigram data drawn.
MaxUnigram == 4
\* Largest numerator and denominator of the threshold t drawn.
MaxThreshold == 3

Surd(q, s, r) ==
    IF s = 0 \/ IsZero(r) THEN [k |-> "surd", q |-> q, s |-> 0, r |-> Zero]
    ELSE [k |-> "surd", q |-> q, s |-> s, r |-> r]

\* A rational or the square root of one, as such a number.
AsSurd(v) ==
    IF v.k = "sqrt" THEN Surd(Zero, 1, Fin(v.n, v.d)) ELSE Surd(v, 0, Zero)

\* a - b, for a and b of which at most one has a square root.
SurdSub(a, b) ==
    Surd(FSub(a.q, b.q), a.s - b.s, IF a.s # 0 THEN a.r ELSE b.r)

\* a + b, likewise.
SurdAdd(a, b) ==
    Surd(FAdd(a.q, b.q), a.s + b.s, IF a.s # 0 THEN a.r ELSE b.r)

\* -1, 0 or 1: the sign of q + s*sqrt(r), by comparing q*q with r.
SurdSign(a) ==
    LET qq == FMul(a.q, a.q)
        cmp == IF qq = a.r THEN 0 ELSE IF FLeq(qq, a.r) THEN 1 ELSE -1
    IN  IF a.s = 0 THEN Sign(a.q)
        ELSE IF Sign(a.q) * a.s >= 0 THEN a.s
        ELSE a.s * cmp

\* a <= b
SurdLeq(a, b) == SurdSign(SurdSub(a, b)) <= 0

\* torch.clamp(a, 0, 1)
Clamp01(a) ==
    IF SurdSign(a) < 0 THEN AsSurd(Zero)
    ELSE IF SurdSign(SurdSub(a, AsSurd(One))) > 0 THEN AsSurd(One)
    ELSE a

\* Mutant: the square root is left out of the drop probability.
DropProb_NoSqrt(freq, t) ==
    Clamp01(AsSurd(FDiv(FSub(freq, t), freq)))

\* drop_probs = torch.clamp((freqs - t)/freqs - torch.sqrt(t/freqs), 0, 1),
\* for one word.
DropProb(freq, t) ==
    Clamp01(SurdSub(AsSurd(FDiv(FSub(freq, t), freq)),
                    AsSurd(FSqrt(FDiv(t, freq)))))

\* keep_probs = 1 - drop_probs, for one word.
KeepProb(freq, t) == SurdSub(AsSurd(One), DropProb(freq, t))

\* w2v_prob_keep(uNx, uN, t): freqs = uNx / uN, then the keep probability
\* of every word.
W2vProbKeep(uNx, uN, t) ==
    Map1(LAMBDA freq : KeepProb(freq, t), Map2(FDiv, uNx, uN))

\* Unigram counts of one or two words, a total and a threshold, all
\* positive.
InitKeep ==
    /\ InitCommon
    /\ args.num_loaders = 1 /\ args.queue_size = 1
    /\ args.sector_factor = 1 /\ args.shard_factor = 1
    /\ InitPipeVars
    /\ V = 0
    /\ InitBatchVars
    /\ InitDataVars
    /\ \E len \in 1..2 :
       \E counts \in [1..len -> 1..MaxUnigram], total \in 1..MaxUnigram,
          tn \in 1..MaxThreshold, td \in 1..MaxThreshold :
          pres = [op |-> "none",
                  uNx |-> ColumnTensor(counts),
                  uN |-> Scalar(Fin(total, 1)),
                  t |-> Fin(tn, td)]

\* A call of w2v_prob_keep on the drawn unigram data.
ApplyKeep ==
    /\ pres.op = "none"
    /\ pres' = [pres EXCEPT !.op = "w2v_prob_keep"] @@
               [keep_probs |-> W2vProbKeep(pres.uNx, pres.uN, pres.t)]
    /\ UNCHANGED <<args, ldr, V>>
    /\ UNCHANGED <<pipeVars, batchVars, dataVars>>

NextKeep == ApplyKeep

SpecKeep == InitKeep /\ [][NextKeep]_vars

\* clamp(t/freq + sqrt(t/freq), 0, 1), for one word.
ExpectedKeep(freq, t) ==
    Clamp01(SurdAdd(AsSurd(FDiv(t, freq)), AsSurd(FSqrt(FDiv(t, freq)))))

\* C22: for positive counts, total and threshold, w2v_prob_keep returns
\* clamp(t/freq + sqrt(t/freq), 0, 1) for every word, freq = uNx/uN; the
\* keep probability lies in [0, 1] and is 1 for every word with freq <= t.
C22_KeepProb ==
    pres.op = "w2v_prob_keep" =>
        /\ pres.keep_probs.rows = pres.uNx.rows /\ pres.keep_probs.cols = 1
        /\ \A p \in DOMAIN pres.uNx.at :
              LET freq == FDiv(pres.uNx.at[p], pres.uN.at[<<1, 1>>])
                  keep == pres.keep_probs.at[p]
              IN  /\ keep = ExpectedKeep(freq, pres.t)
                  /\ SurdLeq(AsSurd(Zero), keep) /\ SurdLeq(keep, AsSurd(One))
                  /\ FLeq(freq, pres.t) => keep = AsSurd(One)

\* C22 witness: counts 1 and 4 of a total of 4 with t = 1/3: the first word
\* has freq 1/4 <= t and is kept with probability 1, the second has freq 1
\* and is kept with probability 1/3 + sqrt(1/3), strictly between 0 and 1.
C22_Witness ==
    /\ pres.op = "w2v_prob_keep"
    /\ pres.uNx = ColumnTensor(<<1, 4>>) /\ pres.uN = Scalar(Fin(4, 1))
    /\ pres.t = Fin(1, 3)
    /\ pres.keep_probs.at[<<1, 1>>] = AsSurd(One)
    /\ pres.keep_probs.at[<<2, 1>>] = Surd(Fin(1, 3), 1, Fin(1, 3))
    /\ ~SurdLeq(AsSurd(One), pres.keep_probs.at[<<2, 1>>])
    /\ ~SurdLeq(pres.keep_probs.at[<<2, 1>>], AsSurd(Zero))

\* C23: no _load (PPMI, GloVe, SGNS, MLE, Max-Posterior, KL) changes the
\* partitions stored in preloaded_batches, on the staging device (where
\* _load works on the stored tensors themselves) as on another one, GloVe's
\* assignments into M and weights included; so two traversals return equal
\* batches at every position where the hyperparameters were the same.
C23_RawPartitionsKept ==
    /\ StoredIntact
    /\ \A j \in DOMAIN yielded \cap DOMAIN earlier :
          earlier[j].h = yielded[j].h => earlier[j].out = yielded[j].out

\* C23 witness: a GloVe loader on the staging device has traversed its four
\* partitions twice with the same hyperparameters; the first partition is a
\* zero cell, so both traversals wrote M = 0 and weights = 0 under the mask.
C23_Witness ==
    /\ loader_class = [module |-> "loaders", family |-> "GloVe"]
    /\ device = StagingDevice
    /\ Len(earlier) = 4 /\ Len(yielded) = 4
    /\ \A j \in 1..4 : earlier[j].h = yielded[j].h
    /\ IsZero(preloaded_batches[1].bigram.Nxx.at[<<1, 1>>])
    /\ ~IsZero(preloaded_batches[2].bigram.Nxx.at[<<1, 1>>])
    /\ yielded[1].out.batch.M.at[<<1, 1>>] = Zero
    /\ yielded[1].out.batch.weights.at[<<1, 1>>] = Zero
    /\ yielded[2].out.batch.weights.at[<<1, 1>>] = Fin(2, 1)

====
